---------------------------- MODULE Spec2Model ----------------------------
(***************************************************************************)
(* The conversational scheduling agent (SchedulingAgent) and the meeting   *)
(* store it drives (ScheduleService), as a state machine.                  *)
(*                                                                         *)
(* Strings are sequences of one-character strings, so that the keyword     *)
(* tests (substring membership) and the regular expressions of the         *)
(* extractors are computed on the utterance's characters.  CharTable       *)
(* spells the string literals of the source and the utterances.            *)
(***************************************************************************)
EXTENDS Integers, Sequences, FiniteSets, TLC

VARIABLES
    pending_actions,       \* SchedulingAgent.pending_actions: user id -> entry
    conversation_history,  \* SchedulingAgent.conversation_history: user id -> turns
    meetings,              \* the meetings table: id -> row (Meeting objects)
    next_id,               \* the table's next primary key
    frames,                \* the process_message calls in flight, and their results
    plan                   \* the last call of the scheduling routes, and its result

vars == <<pending_actions, conversation_history, meetings, next_id, frames, plan>>

-----------------------------------------------------------------------------
(* Strings *)

CharTable ==
    ("show my meetings" :> <<"s","h","o","w"," ","m","y"," ","m","e","e","t","i","n","g","s">>)
 @@ ("schedule a meeting tomorrow at 2pm for 30 minutes with a@b.com" :> <<"s","c","h","e","d","u","l","e"," ","a"," ","m","e","e","t","i","n","g"," ","t","o","m","o","r","r","o","w"," ","a","t"," ","2","p","m"," ","f","o","r"," ","3","0"," ","m","i","n","u","t","e","s"," ","w","i","t","h"," ","a","@","b",".","c","o","m">>)
 @@ ("set up a call at 2pm for 30 minutes with a@b.com" :> <<"s","e","t"," ","u","p"," ","a"," ","c","a","l","l"," ","a","t"," ","2","p","m"," ","f","o","r"," ","3","0"," ","m","i","n","u","t","e","s"," ","w","i","t","h"," ","a","@","b",".","c","o","m">>)
 @@ ("0 minutes" :> <<"0"," ","m","i","n","u","t","e","s">>)
 @@ ("book a room" :> <<"b","o","o","k"," ","a"," ","r","o","o","m">>)
 @@ ("\"standup\"" :> <<"\"","s","t","a","n","d","u","p","\"">>)
 @@ ("yes" :> <<"y","e","s">>)
 @@ ("no" :> <<"n","o">>)
 @@ ("1" :> <<"1">>)
 @@ ("7" :> <<"7">>)
 @@ ("add info" :> <<"a","d","d"," ","i","n","f","o">>)
 @@ ("cancel" :> <<"c","a","n","c","e","l">>)
 @@ ("edit" :> <<"e","d","i","t">>)
 @@ ("edit sync" :> <<"e","d","i","t"," ","s","y","n","c">>)
 @@ ("schedule a" :> <<"s","c","h","e","d","u","l","e"," ","a">>)
 @@ ("3pm" :> <<"3","p","m">>)
 @@ ("hello" :> <<"h","e","l","l","o">>)
 @@ ("thanks" :> <<"t","h","a","n","k","s">>)
 @@ ("25:00" :> <<"2","5",":","0","0">>)
 @@ ("13pm" :> <<"1","3","p","m">>)
 @@ ("cancel my meetings" :> <<"c","a","n","c","e","l"," ","m","y"," ","m","e","e","t","i","n","g","s">>)
 @@ ("c@d.com" :> <<"c","@","d",".","c","o","m">>)
 @@ ("delete all" :> <<"d","e","l","e","t","e"," ","a","l","l">>)
 @@ ("show" :> <<"s","h","o","w">>)
 @@ ("view" :> <<"v","i","e","w">>)
 @@ ("see" :> <<"s","e","e">>)
 @@ ("what" :> <<"w","h","a","t">>)
 @@ ("meetings" :> <<"m","e","e","t","i","n","g","s">>)
 @@ ("schedule" :> <<"s","c","h","e","d","u","l","e">>)
 @@ ("calendar" :> <<"c","a","l","e","n","d","a","r">>)
 @@ ("my" :> <<"m","y">>)
 @@ ("have" :> <<"h","a","v","e">>)
 @@ ("scheduled" :> <<"s","c","h","e","d","u","l","e","d">>)
 @@ ("create" :> <<"c","r","e","a","t","e">>)
 @@ ("set up" :> <<"s","e","t"," ","u","p">>)
 @@ ("book" :> <<"b","o","o","k">>)
 @@ ("arrange" :> <<"a","r","r","a","n","g","e">>)
 @@ ("meeting" :> <<"m","e","e","t","i","n","g">>)
 @@ ("new" :> <<"n","e","w">>)
 @@ ("a" :> <<"a">>)
 @@ ("with" :> <<"w","i","t","h">>)
 @@ ("change" :> <<"c","h","a","n","g","e">>)
 @@ ("update" :> <<"u","p","d","a","t","e">>)
 @@ ("modify" :> <<"m","o","d","i","f","y">>)
 @@ ("move" :> <<"m","o","v","e">>)
 @@ ("reschedule" :> <<"r","e","s","c","h","e","d","u","l","e">>)
 @@ ("delete" :> <<"d","e","l","e","t","e">>)
 @@ ("remove" :> <<"r","e","m","o","v","e">>)
 @@ ("clear" :> <<"c","l","e","a","r">>)
 @@ ("all" :> <<"a","l","l">>)
 @@ ("everything" :> <<"e","v","e","r","y","t","h","i","n","g">>)
 @@ ("clear all" :> <<"c","l","e","a","r"," ","a","l","l">>)
 @@ ("help" :> <<"h","e","l","p">>)
 @@ ("what can you do" :> <<"w","h","a","t"," ","c","a","n"," ","y","o","u"," ","d","o">>)
 @@ ("how" :> <<"h","o","w">>)
 @@ ("?" :> <<"?">>)
 @@ ("hi" :> <<"h","i">>)
 @@ ("hey" :> <<"h","e","y">>)
 @@ ("good morning" :> <<"g","o","o","d"," ","m","o","r","n","i","n","g">>)
 @@ ("good afternoon" :> <<"g","o","o","d"," ","a","f","t","e","r","n","o","o","n">>)
 @@ ("that's enough" :> <<"t","h","a","t","'","s"," ","e","n","o","u","g","h">>)
 @@ ("confirm" :> <<"c","o","n","f","i","r","m">>)
 @@ ("ok" :> <<"o","k">>)
 @@ ("go ahead" :> <<"g","o"," ","a","h","e","a","d">>)
 @@ ("add more" :> <<"a","d","d"," ","m","o","r","e">>)
 @@ ("more info" :> <<"m","o","r","e"," ","i","n","f","o">>)
 @@ ("add details" :> <<"a","d","d"," ","d","e","t","a","i","l","s">>)
 @@ ("y" :> <<"y">>)
 @@ ("am" :> <<"a","m">>)
 @@ ("pm" :> <<"p","m">>)
 @@ ("hour" :> <<"h","o","u","r">>)
 @@ ("hours" :> <<"h","o","u","r","s">>)
 @@ ("hr" :> <<"h","r">>)
 @@ ("hrs" :> <<"h","r","s">>)
 @@ ("minute" :> <<"m","i","n","u","t","e">>)
 @@ ("minutes" :> <<"m","i","n","u","t","e","s">>)
 @@ ("min" :> <<"m","i","n">>)
 @@ ("mins" :> <<"m","i","n","s">>)
 @@ ("about" :> <<"a","b","o","u","t">>)
 @@ ("title" :> <<"t","i","t","l","e">>)
 @@ ("to" :> <<"t","o">>)
 @@ ("first" :> <<"f","i","r","s","t">>)
 @@ ("1st" :> <<"1","s","t">>)
 @@ ("second" :> <<"s","e","c","o","n","d">>)
 @@ ("2nd" :> <<"2","n","d">>)
 @@ ("last" :> <<"l","a","s","t">>)
 @@ ("sync" :> <<"s","y","n","c">>)
 @@ ("demo" :> <<"d","e","m","o">>)
 @@ ("review" :> <<"r","e","v","i","e","w">>)
 @@ ("offsite" :> <<"o","f","f","s","i","t","e">>)
 @@ ("a@b.com" :> <<"a","@","b",".","c","o","m">>)
 @@ ("standup" :> <<"s","t","a","n","d","u","p">>)
 @@ ("TBD" :> <<"T","B","D">>)
 @@ ("Untitled Meeting" :> <<"U","n","t","i","t","l","e","d"," ","M","e","e","t","i","n","g">>)
 @@ ("create_meeting" :> <<"c","r","e","a","t","e","_","m","e","e","t","i","n","g">>)
 @@ ("suggest_alternative" :> <<"s","u","g","g","e","s","t","_","a","l","t","e","r","n","a","t","i","v","e">>)
 @@ ("update_meeting" :> <<"u","p","d","a","t","e","_","m","e","e","t","i","n","g">>)
 @@ ("delete_meeting" :> <<"d","e","l","e","t","e","_","m","e","e","t","i","n","g">>)
 @@ ("clarify_delete" :> <<"c","l","a","r","i","f","y","_","d","e","l","e","t","e">>)
 @@ ("details" :> <<"d","e","t","a","i","l","s">>)

Str(s) == CharTable[s]

Digits == {"0", "1", "2", "3", "4", "5", "6", "7", "8", "9"}

DigitVal(c) ==
    CASE c = "0" -> 0 [] c = "1" -> 1 [] c = "2" -> 2 [] c = "3" -> 3
      [] c = "4" -> 4 [] c = "5" -> 5 [] c = "6" -> 6 [] c = "7" -> 7
      [] c = "8" -> 8 [] c = "9" -> 9

Letters ==
    {"a", "b", "c", "d", "e", "f", "g", "h", "i", "j", "k", "l", "m", "n",
     "o", "p", "q", "r", "s", "t", "u", "v", "w", "x", "y", "z",
     "A", "B", "C", "D", "E", "F", "G", "H", "I", "J", "K", "L", "M", "N",
     "O", "P", "Q", "R", "S", "T", "U", "V", "W", "X", "Y", "Z"}

LowerChar(c) ==
    CASE c = "A" -> "a" [] c = "B" -> "b" [] c = "C" -> "c" [] c = "D" -> "d"
      [] c = "E" -> "e" [] c = "F" -> "f" [] c = "G" -> "g" [] c = "H" -> "h"
      [] c = "I" -> "i" [] c = "J" -> "j" [] c = "K" -> "k" [] c = "L" -> "l"
      [] c = "M" -> "m" [] c = "N" -> "n" [] c = "O" -> "o" [] c = "P" -> "p"
      [] c = "Q" -> "q" [] c = "R" -> "r" [] c = "S" -> "s" [] c = "T" -> "t"
      [] c = "U" -> "u" [] c = "V" -> "v" [] c = "W" -> "w" [] c = "X" -> "x"
      [] c = "Y" -> "y" [] c = "Z" -> "z" [] OTHER -> c

\* str.lower()
lower(S) == [i \in 1..Len(S) |-> LowerChar(S[i])]

IsSpace(c) == c = " "

SetMin(A) == CHOOSE x \in A : \A y \in A : x <= y

SetMax(A) == CHOOSE x \in A : \A y \in A : x >= y

\* str.strip()
strip(S) ==
    LET idx == {i \in 1..Len(S) : ~IsSpace(S[i])}
    IN  IF idx = {} THEN <<>> ELSE SubSeq(S, SetMin(idx), SetMax(idx))

\* W occurs in S at position i
HasAt(S, i, W) ==
    /\ i >= 1
    /\ i + Len(W) - 1 <= Len(S)
    /\ \A k \in 1..Len(W) : S[i + k - 1] = W[k]

\* Python's  W in S  on strings
Contains(S, W) == \E i \in 1..(Len(S) - Len(W) + 1) : HasAt(S, i, W)

\* any(word in S for word in words)
AnyIn(S, words) == \E w \in words : Contains(S, Str(w))

\* str.isdigit()
isdigit(S) == Len(S) > 0 /\ \A i \in 1..Len(S) : S[i] \in Digits

RECURSIVE int(_)
\* int() of a digit string
int(S) == IF S = <<>> THEN 0 ELSE int(SubSeq(S, 1, Len(S) - 1)) * 10 + DigitVal(S[Len(S)])

\* first index >= i that holds no whitespace (Len(S) + 1 when there is none)
SkipWs(S, i) ==
    LET rest == {j \in i..Len(S) : ~IsSpace(S[j])}
    IN  IF rest = {} THEN Len(S) + 1 ELSE SetMin(rest)

\* first index >= i that holds no digit
SkipDigits(S, i) ==
    LET rest == {j \in i..Len(S) : S[j] \notin Digits}
    IN  IF rest = {} THEN Len(S) + 1 ELSE SetMin(rest)

\* first index >= i that holds c (Len(S) + 1 when there is none)
IndexOf(S, i, c) ==
    LET rest == {j \in i..Len(S) : S[j] = c}
    IN  IF rest = {} THEN Len(S) + 1 ELSE SetMin(rest)

DigitsAt(S, i, n) == i >= 1 /\ i + n - 1 <= Len(S) /\ \A k \in 0..(n - 1) : S[i + k] \in Digits

RECURSIVE SplitFrom(_, _)
SplitFrom(S, i) ==
    LET b == SkipWs(S, i)
        e == IndexOf(S, b, " ")
    IN  IF b > Len(S) THEN <<>> ELSE <<SubSeq(S, b, e - 1)>> \o SplitFrom(S, e)

\* str.split()
split(S) == SplitFrom(S, 1)

RECURSIVE JoinFrom(_, _)
JoinFrom(words, i) ==
    IF i > Len(words) THEN <<>>
    ELSE IF i = Len(words) THEN words[i]
    ELSE words[i] \o <<" ">> \o JoinFrom(words, i + 1)

\* " ".join(words)
join(words) == JoinFrom(words, 1)

-----------------------------------------------------------------------------
(* Python values: what a dict of the agent may hold *)

PyNone == [k |-> "none"]

PyStr(s) == [k |-> "str", v |-> s]

PyInt(n) == [k |-> "int", v |-> n]

PyList(l) == [k |-> "list", v |-> l]

PyDict(d) == [k |-> "dict", v |-> d]

\* bool(x)
Truthy(x) ==
    CASE x.k = "none" -> FALSE
      [] x.k = "str" -> x.v # <<>>
      [] x.k = "int" -> x.v # 0
      [] x.k = "list" -> x.v # <<>>
      [] x.k = "dict" -> DOMAIN x.v # {}
      [] OTHER -> TRUE

EmptyDict == [x \in {} |-> PyNone]

\* d.get(key)
Get(d, key) == IF key \in DOMAIN d THEN d[key] ELSE PyNone

\* d.get(key, default)
GetOr(d, key, default) == IF key \in DOMAIN d THEN d[key] ELSE default

\* d[key] = value
Put(d, key, value) == [x \in DOMAIN d \cup {key} |-> IF x = key THEN value ELSE d[x]]

\* d.update(e)
Update(d, e) == [x \in DOMAIN d \cup DOMAIN e |-> IF x \in DOMAIN e THEN e[x] ELSE d[x]]

-----------------------------------------------------------------------------
(* Dates and times: a datetime is a number of minutes; day Today starts at *)
(* Today * 1440.  An ISO string is kept as its fields.                     *)

\* datetime.now().date()
Today == 0

\* datetime.combine(day, time(hour, minute))
combine(day, hour, minute) == day * 1440 + hour * 60 + minute

\* datetime.isoformat()
isoformat(t) == [k |-> "isostr", v |-> [d |-> t \div 1440, h |-> (t % 1440) \div 60, mi |-> t % 60]]

\* whether datetime.fromisoformat(x) parses
IsIso(x) == x.k = "isostr"

\* a version of the parse that keeps the date only
fromisoformat_date_only(x) == x.v.d * 1440

\* datetime.fromisoformat(x)
fromisoformat(x) == x.v.d * 1440 + x.v.h * 60 + x.v.mi

HourOf(t) == (t % 1440) \div 60

MinuteOf(t) == t % 60

-----------------------------------------------------------------------------
(* Intent Classifier *)

\* a version of the classifier that tries the delete rule first
analyze_intent_delete_first(message) ==
    LET message_lower == lower(message)
    IN  IF AnyIn(message_lower, {"cancel", "delete", "remove", "clear"})
        THEN "delete_meeting"
        ELSE IF /\ AnyIn(message_lower, {"show", "view", "see", "what", "meetings", "schedule", "calendar"})
                /\ AnyIn(message_lower, {"my", "have", "scheduled"})
        THEN "view_meetings"
        ELSE IF /\ AnyIn(message_lower, {"schedule", "create", "set up", "book", "arrange", "meeting"})
                /\ AnyIn(message_lower, {"new", "a", "with"})
        THEN "create_meeting"
        ELSE IF AnyIn(message_lower, {"change", "update", "modify", "move", "reschedule", "edit"})
        THEN "update_meeting"
        ELSE "conversation"

_analyze_intent(message) ==
    LET message_lower == lower(message)
    IN  IF /\ AnyIn(message_lower, {"show", "view", "see", "what", "meetings", "schedule", "calendar"})
           /\ AnyIn(message_lower, {"my", "have", "scheduled"})
        THEN "view_meetings"
        ELSE IF /\ AnyIn(message_lower, {"schedule", "create", "set up", "book", "arrange", "meeting"})
                /\ AnyIn(message_lower, {"new", "a", "with"})
        THEN "create_meeting"
        ELSE IF AnyIn(message_lower, {"change", "update", "modify", "move", "reschedule", "edit"})
        THEN "update_meeting"
        ELSE IF AnyIn(message_lower, {"cancel", "delete", "remove", "clear"})
        THEN "delete_meeting"
        ELSE IF /\ AnyIn(message_lower, {"all", "everything", "clear all"})
                /\ AnyIn(message_lower, {"cancel", "delete", "remove"})
        THEN "delete_all_meetings"
        ELSE "conversation"

-----------------------------------------------------------------------------
(* Regular expressions of the extractors: re.search gives the leftmost     *)
(* match, each quantifier taking as much as it can.                        *)

NoMatch == [ok |-> FALSE, g |-> <<>>]

AmPmAt(S, j) == HasAt(S, j, Str("am")) \/ HasAt(S, j, Str("pm"))

\* re.search: the groups of the match at the leftmost start, if any
\* (groups: the groups of the match at each start)
Leftmost(groups) ==
    IF DOMAIN groups = {} THEN NoMatch ELSE [ok |-> TRUE, g |-> groups[SetMin(DOMAIN groups)]]

\* (\d{1,2}):(\d{2})\s*(am|pm)
TimeRe12hMinutes(S) ==
    LET At(i, nd) ==
            /\ DigitsAt(S, i, nd)
            /\ HasAt(S, i + nd, <<":">>)
            /\ DigitsAt(S, i + nd + 1, 2)
            /\ AmPmAt(S, SkipWs(S, i + nd + 3))
        Period(j) == SubSeq(S, j, j + 1)
        Taking(i, nd) ==
            <<SubSeq(S, i, i + nd - 1), SubSeq(S, i + nd + 1, i + nd + 2),
              Period(SkipWs(S, i + nd + 3))>>
        Groups(i) == Taking(i, IF At(i, 2) THEN 2 ELSE 1)
    IN  Leftmost([i \in {j \in 1..Len(S) : At(j, 2) \/ At(j, 1)} |-> Groups(i)])

\* (\d{1,2})\s*(am|pm)
TimeRe12h(S) ==
    LET At(i, nd) == DigitsAt(S, i, nd) /\ AmPmAt(S, SkipWs(S, i + nd))
        Period(j) == SubSeq(S, j, j + 1)
        Taking(i, nd) == <<SubSeq(S, i, i + nd - 1), Period(SkipWs(S, i + nd))>>
        Groups(i) == Taking(i, IF At(i, 2) THEN 2 ELSE 1)
    IN  Leftmost([i \in {j \in 1..Len(S) : At(j, 2) \/ At(j, 1)} |-> Groups(i)])

\* (\d{1,2}):(\d{2})
TimeRe24h(S) ==
    LET At(i, nd) == DigitsAt(S, i, nd) /\ HasAt(S, i + nd, <<":">>) /\ DigitsAt(S, i + nd + 1, 2)
        Taking(i, nd) == <<SubSeq(S, i, i + nd - 1), SubSeq(S, i + nd + 1, i + nd + 2)>>
        Groups(i) == Taking(i, IF At(i, 2) THEN 2 ELSE 1)
    IN  Leftmost([i \in {j \in 1..Len(S) : At(j, 2) \/ At(j, 1)} |-> Groups(i)])

\* the alternative of (u1|u2|...) taken at j: the first one, in order, that is there
FirstUnitAt(S, j, units) ==
    LET First(hits) == IF hits = {} THEN "" ELSE units[SetMin(hits)]
    IN  First({n \in 1..Len(units) : HasAt(S, j, Str(units[n]))})

\* (\d+)\s*(u1|u2|...)
NumberUnitRe(S, units) ==
    LET At(i) == S[i] \in Digits /\ FirstUnitAt(S, SkipWs(S, SkipDigits(S, i)), units) # ""
        Taking(i, e) == <<SubSeq(S, i, e - 1), Str(FirstUnitAt(S, SkipWs(S, e), units))>>
        Groups(i) == Taking(i, SkipDigits(S, i))
    IN  Leftmost([i \in {j \in 1..Len(S) : At(j)} |-> Groups(i)])

HourUnits == <<"hour", "hours", "hr", "hrs">>

MinuteUnits == <<"minute", "minutes", "min", "mins">>

\* (\d+)\s*(hour|hours|hr|hrs)\s*(\d+)\s*(minute|minutes|min|mins)
HoursMinutesRe(S) ==
    LET \* the minutes' digits start at a, after the unit n found at u
        Minutes(a) ==
            /\ a <= Len(S)
            /\ S[a] \in Digits
            /\ FirstUnitAt(S, SkipWs(S, SkipDigits(S, a)), MinuteUnits) # ""
        UnitAt(u, n) ==
            HasAt(S, u, Str(HourUnits[n])) /\ Minutes(SkipWs(S, u + Len(Str(HourUnits[n]))))
        Rest(u) == {n \in 1..Len(HourUnits) : UnitAt(u, n)}
        At(i) == S[i] \in Digits /\ Rest(SkipWs(S, SkipDigits(S, i))) # {}
        Last(a, b) == <<SubSeq(S, a, b - 1), Str(FirstUnitAt(S, SkipWs(S, b), MinuteUnits))>>
        Tail3(a) == Last(a, SkipDigits(S, a))
        Tail2(u, n) == <<Str(HourUnits[n])>> \o Tail3(SkipWs(S, u + Len(Str(HourUnits[n]))))
        Tail1(u) == Tail2(u, SetMin(Rest(u)))
        Taking(i, e) == <<SubSeq(S, i, e - 1)>> \o Tail1(SkipWs(S, e))
        Groups(i) == Taking(i, SkipDigits(S, i))
    IN  Leftmost([i \in {j \in 1..Len(S) : At(j)} |-> Groups(i)])

\* "([^"]+)"
QuotedRe(S) ==
    LET At(i) ==
            /\ S[i] = "\""
            /\ i + 1 <= Len(S)
            /\ S[i + 1] # "\""
            /\ IndexOf(S, i + 1, "\"") <= Len(S)
        Groups(i) == <<SubSeq(S, i + 1, IndexOf(S, i + 1, "\"") - 1)>>
    IN  Leftmost([i \in {j \in 1..Len(S) : At(j)} |-> Groups(i)])

\* word\s+([^,]+)
WordThenTextRe(S, word) ==
    LET \* where the group starts, for a match at i (0 when there is none): after
        \* the whitespace, or on its last character when a comma or the end follows
        After(a, b) ==
            IF ~(a <= Len(S) /\ IsSpace(S[a])) THEN 0
            ELSE IF b <= Len(S) /\ S[b] # "," THEN b
            ELSE IF b - a >= 2 THEN b - 1
            ELSE 0
        From(a) == After(a, SkipWs(S, a))
        GroupStart(i) == IF HasAt(S, i, Str(word)) THEN From(i + Len(Str(word))) ELSE 0
        Upto(b) == <<SubSeq(S, b, IndexOf(S, b, ",") - 1)>>
        Groups(i) == Upto(GroupStart(i))
    IN  Leftmost([i \in {j \in 1..Len(S) : GroupStart(j) # 0} |-> Groups(i)])

\* title\s+(?:to\s+)?"([^"]+)"
TitleToRe(S) ==
    LET QuoteAt(q) ==
            /\ HasAt(S, q, <<"\"">>)
            /\ q + 1 <= Len(S)
            /\ S[q + 1] # "\""
            /\ IndexOf(S, q + 1, "\"") <= Len(S)
        \* the opening quote of a match at i (0 when there is none)
        ViaTo(b, c, d) ==
            IF HasAt(S, b, Str("to")) /\ c <= Len(S) /\ IsSpace(S[c]) /\ QuoteAt(d) THEN d
            ELSE IF QuoteAt(b) THEN b
            ELSE 0
        AfterTo(b, c) == ViaTo(b, c, SkipWs(S, c))
        AfterTitle(a, b) ==
            IF ~(a <= Len(S) /\ IsSpace(S[a])) THEN 0 ELSE AfterTo(b, b + Len(Str("to")))
        From(a) == AfterTitle(a, SkipWs(S, a))
        Quote(i) == IF HasAt(S, i, Str("title")) THEN From(i + Len(Str("title"))) ELSE 0
        Quoted(q) == <<SubSeq(S, q + 1, IndexOf(S, q + 1, "\"") - 1)>>
        Groups(i) == Quoted(Quote(i))
    IN  Leftmost([i \in {j \in 1..Len(S) : Quote(j) # 0} |-> Groups(i)])

WordChars == Letters \cup Digits \cup {"_"}

LocalChars == Letters \cup Digits \cup {".", "_", "%", "+", "-"}

DomainChars == Letters \cup Digits \cup {".", "-"}

\* re.findall(r'\b[A-Za-z0-9._%+-]+@[A-Za-z0-9.-]+\.[A-Z|a-z]{2,}\b', S)
EmailsRe(S) ==
    LET \* the last character of the top-level domain after the dot at d
        Ends(d) == {e \in (d + 2)..Len(S) :
                       /\ \A x \in (d + 1)..e : S[x] \in Letters \cup {"|"}
                       /\ S[e] \in Letters
                       /\ (e = Len(S) \/ S[e + 1] \notin WordChars)}
        Firsts(p) == {s \in 1..(p - 1) :
                         /\ \A x \in s..(p - 1) : S[x] \in LocalChars
                         /\ S[s] \in WordChars
                         /\ (s = 1 \/ S[s - 1] \notin WordChars)}
        Dots(p) == {d \in (p + 2)..Len(S) :
                       /\ S[d] = "."
                       /\ \A x \in (p + 1)..(d - 1) : S[x] \in DomainChars
                       /\ Ends(d) # {}}
        Span(firsts, dots) ==
            IF firsts = {} \/ dots = {} THEN <<0, 0>>
            ELSE <<SetMin(firsts), SetMax(Ends(SetMax(dots)))>>
        \* the match around the @ at p, as <<first, last>> (<<0, 0>> when there is none)
        Around(p) == Span(Firsts(p), Dots(p))
        Sub(span) == SubSeq(S, span[1], span[2])
        RECURSIVE InOrder(_)
        InOrder(A) ==
            IF A = {} THEN <<>>
            ELSE <<Sub(Around(SetMin(A)))>> \o InOrder(A \ {SetMin(A)})
    IN  InOrder({p \in 1..Len(S) : S[p] = "@" /\ Around(p) # <<0, 0>>})

-----------------------------------------------------------------------------
(* Information Extractor (rule-based path) *)

\* The 12-hour adjustment and  datetime.min.time().replace(hour=, minute=),
\* which raises ValueError outside 0..23 and 0..59.
TimeToday(hour, minute, period) ==
    LET h == IF period = Str("pm") /\ hour # 12 THEN hour + 12
             ELSE IF period = Str("am") /\ hour = 12 THEN 0
             ELSE hour
    IN  IF h \in 0..23 /\ minute \in 0..59
        THEN [raised |-> FALSE, start_time |-> isoformat(combine(Today, h, minute))]
        ELSE [raised |-> TRUE, start_time |-> PyNone]

FirstMatch(ms) ==
    LET First(hits) == IF hits = {} THEN NoMatch ELSE ms[SetMin(hits)]
    IN  First({n \in 1..Len(ms) : ms[n].ok})

\* the title of _extract_meeting_info, as a dict with or without "title"
ExtractTitle(message) ==
    LET Named(potential_title) ==
            IF Len(potential_title) > 2 THEN [title |-> PyStr(potential_title)] ELSE EmptyDict
        Before(words, i) == Named(join(SubSeq(words, IF i - 2 > 1 THEN i - 2 ELSE 1, i - 1)))
        Among(words, at) ==
            IF Contains(lower(message), Str("meeting")) /\ at # {}
            THEN Before(words, SetMin(at))
            ELSE EmptyDict
        Words(words) == Among(words, {i \in 2..Len(words) : lower(words[i]) = Str("meeting")})
        Title(title_match) ==
            IF title_match.ok THEN [title |-> PyStr(title_match.g[1])]
            ELSE Words(split(message))
    IN  Title(QuotedRe(message))

\* the start time of _extract_meeting_info: [raised, d]
ExtractTime(message_lower) ==
    LET Found(t) == [raised |-> t.raised, d |-> [start_time |-> t.start_time]]
        At(g, hour) ==
            IF Len(g) = 3 THEN TimeToday(hour, int(g[2]), g[3])
            ELSE IF Len(g) = 2 THEN TimeToday(hour, 0, g[2])
            ELSE TimeToday(hour, int(g[2]), IF hour < 12 THEN Str("am") ELSE Str("pm"))
        Time(match) ==
            IF ~match.ok THEN [raised |-> FALSE, d |-> EmptyDict]
            ELSE Found(At(match.g, int(match.g[1])))
    IN  Time(FirstMatch(<<TimeRe12hMinutes(message_lower), TimeRe12h(message_lower),
                          TimeRe24h(message_lower)>>))

\* the duration of _extract_meeting_info
ExtractDuration(message_lower) ==
    LET Minutes(g, value) ==
            IF Len(g) = 2
            THEN [duration_minutes |->
                     PyInt(IF \E n \in 1..Len(HourUnits) : g[2] = Str(HourUnits[n])
                           THEN value * 60 ELSE value)]
            ELSE IF Len(g) = 4
            THEN [duration_minutes |-> PyInt(value * 60 + int(g[3]))]
            ELSE EmptyDict
        Duration(match) ==
            IF ~match.ok THEN EmptyDict ELSE Minutes(match.g, int(match.g[1]))
    IN  Duration(FirstMatch(<<NumberUnitRe(message_lower, HourUnits),
                              NumberUnitRe(message_lower, MinuteUnits),
                              HoursMinutesRe(message_lower)>>))

ExtractParticipants(message_lower) ==
    LET With(with_match) ==
            IF with_match.ok THEN [participants |-> PyList(<<PyStr(strip(with_match.g[1]))>>)]
            ELSE EmptyDict
    IN  With(WordThenTextRe(message_lower, "with"))

ExtractEmails(message) ==
    LET Emails(emails) ==
            IF emails # <<>>
            THEN [emails |-> PyList([i \in 1..Len(emails) |-> PyStr(emails[i])])]
            ELSE EmptyDict
    IN  Emails(EmailsRe(message))

ExtractDescription(message_lower) ==
    LET Topic(topic) == IF Len(topic) > 2 THEN [description |-> PyStr(topic)] ELSE EmptyDict
        About(about_match) == IF about_match.ok THEN Topic(strip(about_match.g[1])) ELSE EmptyDict
    IN  About(WordThenTextRe(message_lower, "about"))

\* [raised, info]: the field map, or the ValueError of an hour or minute out of range
_extract_meeting_info(message) ==
    LET Info(message_lower, time) ==
            [raised |-> time.raised,
             info |-> Update(Update(Update(Update(Update(ExtractTitle(message), time.d),
                         ExtractDuration(message_lower)), ExtractParticipants(message_lower)),
                         ExtractEmails(message)), ExtractDescription(message_lower))]
        Lowered(message_lower) == Info(message_lower, ExtractTime(message_lower))
    IN  Lowered(lower(message))

\* [raised, updates]
_extract_update_info(message) ==
    LET Start(match, t) ==
            [raised |-> match.ok /\ t.raised,
             d |-> IF match.ok THEN [start_time |-> t.start_time] ELSE EmptyDict]
        Time(match) ==
            IF ~match.ok THEN [raised |-> FALSE, d |-> EmptyDict]
            ELSE Start(match, IF Len(match.g) = 3
                              THEN TimeToday(int(match.g[1]), int(match.g[2]), match.g[3])
                              ELSE TimeToday(int(match.g[1]), 0, match.g[2]))
        Minutes(g, value) ==
            [duration_minutes |->
                PyInt(IF g[2] \in {Str("hour"), Str("hours")} THEN value * 60 ELSE value)]
        Duration(duration_match) ==
            IF duration_match.ok THEN Minutes(duration_match.g, int(duration_match.g[1]))
            ELSE EmptyDict
        Title(title_match) ==
            IF title_match.ok THEN [title |-> PyStr(title_match.g[1])] ELSE EmptyDict
        Updates(message_lower, time) ==
            [raised |-> time.raised,
             updates |-> Update(Update(time.d,
                             Duration(NumberUnitRe(message_lower,
                                          <<"min", "minute", "minutes", "hour", "hours">>))),
                             Title(TitleToRe(message_lower)))]
        Lowered(message_lower) ==
            Updates(message_lower,
                    Time(FirstMatch(<<TimeRe12hMinutes(message_lower), TimeRe12h(message_lower)>>)))
    IN  Lowered(lower(message))

\* The meeting of the list  ids  (rows in  rows) the message refers to:
\* [raised, id], id = 0 for None.  A title that is no string raises on .lower().
_identify_meeting_from_message(message, ids, rows) ==
    LET Hour24(hour, period) ==
            IF period = Str("pm") /\ hour # 12 THEN hour + 12
            ELSE IF period = Str("am") /\ hour = 12 THEN 0
            ELSE hour
        AtTime(hour, minute) ==
            {n \in 1..Len(ids) : HourOf(rows[ids[n]].start_time) = hour
                                 /\ MinuteOf(rows[ids[n]].start_time) = minute}
        By1(m1) == IF m1.ok THEN AtTime(Hour24(int(m1.g[1]), m1.g[3]), int(m1.g[2])) ELSE {}
        By2(m2) == IF m2.ok THEN AtTime(Hour24(int(m2.g[1]), m2.g[2]), 0) ELSE {}
        ByOrdinal(message_lower) ==
            IF Contains(message_lower, Str("first")) \/ Contains(message_lower, Str("1st"))
            THEN [raised |-> FALSE, id |-> IF Len(ids) > 0 THEN ids[1] ELSE 0]
            ELSE IF Contains(message_lower, Str("second")) \/ Contains(message_lower, Str("2nd"))
            THEN [raised |-> FALSE, id |-> IF Len(ids) > 1 THEN ids[2] ELSE 0]
            ELSE IF Contains(message_lower, Str("last"))
            THEN [raised |-> FALSE, id |-> IF Len(ids) > 0 THEN ids[Len(ids)] ELSE 0]
            ELSE [raised |-> FALSE, id |-> 0]
        ByTitle(message_lower, untitled, titled) ==
            IF untitled # {} /\ (titled = {} \/ SetMin(untitled) < SetMin(titled))
            THEN [raised |-> TRUE, id |-> 0]
            ELSE IF titled # {} THEN [raised |-> FALSE, id |-> ids[SetMin(titled)]]
            ELSE ByOrdinal(message_lower)
        ByTime(message_lower, by1, by2) ==
            IF by1 # {} THEN [raised |-> FALSE, id |-> ids[SetMin(by1)]]
            ELSE IF by2 # {} THEN [raised |-> FALSE, id |-> ids[SetMin(by2)]]
            ELSE ByTitle(message_lower,
                         {n \in 1..Len(ids) : rows[ids[n]].title.k # "str"},
                         {n \in 1..Len(ids) :
                             /\ rows[ids[n]].title.k = "str"
                             /\ Contains(message_lower, lower(rows[ids[n]].title.v))})
        Lowered(message_lower) ==
            ByTime(message_lower, By1(TimeRe12hMinutes(message_lower)),
                   By2(TimeRe12h(message_lower)))
    IN  Lowered(lower(message))

-----------------------------------------------------------------------------
(* Meeting Store (ScheduleService on the meetings table).  A row, once     *)
(* loaded, is an object the agent may keep a reference to: meetings holds  *)
(* every row that ever existed, and  present  says whether it is still in  *)
(* the table.  A world w is what a step of a handler may change:           *)
(* pa (pending_actions), db (meetings), nid (next_id); calls and raised    *)
(* record, for the turn, the store mutations invoked and whether an        *)
(* exception reached an except clause of a handler boundary.               *)

Users == {1, 2}

\* UserService.get_user_by_email on the users table: the id, 0 for None
get_user_by_email(up, email) ==
    IF up /\ email = Str("a@b.com") THEN 2 ELSE 0

IsUser(row, user_id) ==
    \/ row.organizer_id = user_id
    \/ \E n \in 1..Len(row.participants) :
          row.participants[n].k = "int" /\ row.participants[n].v = user_id

RECURSIVE SortedByStartDesc(_, _)
\* the ids of A, latest start first (earlier row first among equal starts)
SortedByStartDesc(db, A) ==
    IF A = {} THEN <<>>
    ELSE LET first == CHOOSE x \in A : \A y \in A :
                          \/ db[x].start_time > db[y].start_time
                          \/ (db[x].start_time = db[y].start_time /\ x <= y)
         IN  <<first>> \o SortedByStartDesc(db, A \ {first})

\* ScheduleService.get_user_meetings(user_id): the list of rows, as ids
get_user_meetings(db, up, user_id) ==
    IF ~up THEN <<>>
    ELSE SortedByStartDesc(db, {id \in DOMAIN db : db[id].present /\ IsUser(db[id], user_id)})

\* ScheduleService.get_meeting(meeting_id): the id, 0 for None
get_meeting(db, up, meeting_id) ==
    IF up /\ meeting_id \in DOMAIN db /\ db[meeting_id].present THEN meeting_id ELSE 0

Logged(w, op, id) == [w EXCEPT !.calls = Append(@, [op |-> op, id |-> id])]

\* ScheduleService.create_meeting(meeting_data): [w, id], id = 0 for None
create_meeting(w, up, meeting_data) ==
    IF ~up THEN [w |-> Logged(w, "create", 0), id |-> 0]
    ELSE [w |-> [Logged(w, "create", w.nid) EXCEPT
                    !.db = [x \in DOMAIN w.db \cup {w.nid} |->
                               IF x = w.nid
                               THEN [present |-> TRUE,
                                     title |-> meeting_data.title,
                                     description |-> meeting_data.description,
                                     duration_minutes |-> meeting_data.duration_minutes,
                                     start_time |-> meeting_data.start_time,
                                     end_time |-> meeting_data.end_time,
                                     organizer_id |-> meeting_data.organizer_id,
                                     participants |-> meeting_data.participants,
                                     status |-> meeting_data.status]
                               ELSE w.db[x]],
                    !.nid = w.nid + 1],
          id |-> w.nid]

\* ScheduleService.update_meeting(meeting_id, meeting_data): the fields of
\* meeting_data that are not None are written
update_meeting(w, up, meeting_id, meeting_data) ==
    LET found == get_meeting(w.db, up, meeting_id)
        Field(old, new) == IF new.k = "none" THEN old ELSE new.v
    IN  IF found = 0 THEN [w |-> Logged(w, "update", meeting_id), id |-> 0]
        ELSE [w |-> [Logged(w, "update", meeting_id) EXCEPT
                        !.db[meeting_id] =
                            [@ EXCEPT
                                !.title = IF meeting_data.title.k = "none" THEN @ ELSE meeting_data.title,
                                !.duration_minutes = Field(@, meeting_data.duration_minutes),
                                !.start_time = Field(@, meeting_data.start_time),
                                !.end_time = Field(@, meeting_data.end_time)]],
              id |-> meeting_id]

\* ScheduleService.delete_meeting(meeting_id, user_id): user_id = 0 for None
delete_meeting(w, up, meeting_id, user_id) ==
    LET found == get_meeting(w.db, up, meeting_id)
    IN  IF found = 0 THEN [w |-> Logged(w, "delete", meeting_id), id |-> 0]
        ELSE IF user_id # 0 /\ w.db[meeting_id].organizer_id # user_id
        THEN [w |-> Logged(w, "delete", meeting_id), id |-> 0]
        ELSE [w |-> [Logged(w, "delete", meeting_id) EXCEPT !.db[meeting_id].present = FALSE],
              id |-> meeting_id]

-----------------------------------------------------------------------------
(* Replies.  A canned reply is its template and the values formatted into  *)
(* it; a reply written by the Text Completion Service is known by its      *)
(* length and by whether it mentions api, limit, quota or temporarily.     *)
(* note: the usage note of _enhance_response_with_llm has been appended.   *)

Canned(tpl, args) == [tpl |-> tpl, args |-> args, api |-> FALSE, note |-> FALSE]

LlmText(content) == [tpl |-> "llm", args |-> <<PyInt(content.len)>>, api |-> content.api, note |-> FALSE]

\* len(message) == 0
IsEmptyMessage(m) == m.tpl = "llm" /\ m.args[1].v = 0 /\ ~m.note

Resp(success, message) == [success |-> success, message |-> message, needs_llm_enhancement |-> FALSE]

RespNoEnhance(success, message) == [success |-> success, message |-> message, needs_llm_enhancement |-> TRUE]

NoResp == [success |-> FALSE, message |-> Canned("", <<>>), needs_llm_enhancement |-> FALSE]

TitleOf(db, id) == db[id].title

Titles(db, ids) == PyList([n \in 1..Len(ids) |-> db[ids[n]].title])

-----------------------------------------------------------------------------
(* What a piece of a handler ends in: a suspension at a call of the Text   *)
(* Completion Service (await), its result (return), or an exception that   *)
(* leaves it (raise).                                                      *)

NoLoc == [none |-> TRUE]

Await(w, pc, loc) == [w |-> w, k |-> "await", pc |-> pc, loc |-> loc, resp |-> NoResp]

Return(w, resp) == [w |-> w, k |-> "return", pc |-> "", loc |-> NoLoc, resp |-> resp]

Raise(w) == [w |-> w, k |-> "raise", pc |-> "", loc |-> NoLoc, resp |-> NoResp]

\* a version of the assignment that updates the entry the user has
SetPendingMerges(w, user_id, entry) ==
    [w EXCEPT !.pa = [x \in DOMAIN w.pa \cup {user_id} |->
                         IF x # user_id THEN w.pa[x]
                         ELSE IF user_id \in DOMAIN w.pa THEN Update(w.pa[user_id], entry)
                         ELSE entry]]

\* self.pending_actions[user_id] = entry
SetPending(w, user_id, entry) ==
    [w EXCEPT !.pa = [x \in DOMAIN w.pa \cup {user_id} |-> IF x = user_id THEN entry ELSE w.pa[x]]]

\* a version of the deletion that leaves the entry
DelPendingKeeps(w, user_id) == w

\* del self.pending_actions[user_id]
DelPending(w, user_id) ==
    [w EXCEPT !.pa = [x \in DOMAIN w.pa \ {user_id} |-> w.pa[x]]]

\* the except clause of a handler of an intent: the error reply
CaughtBy(out, message) ==
    IF out.k = "raise" THEN Return([out.w EXCEPT !.raised = TRUE], Resp(FALSE, message)) ELSE out

-----------------------------------------------------------------------------
(* Text Completion Service replies.  content.form says how the text reads  *)
(* to _extract_json_from_llm_output and content.val what it denotes.       *)

Text(len, api) == [raises |-> FALSE, quota |-> FALSE,
                   content |-> [len |-> len, api |-> api, form |-> "prose", val |-> PyNone]]

Json(form, val) == [raises |-> FALSE, quota |-> FALSE,
                    content |-> [len |-> 120, api |-> FALSE, form |-> form, val |-> val]]

Fails(quota) == [raises |-> TRUE, quota |-> quota,
                 content |-> [len |-> 0, api |-> FALSE, form |-> "prose", val |-> PyNone]]

\* json.loads, else the outermost {...}, else ast.literal_eval, else None
_extract_json_from_llm_output(content) ==
    IF content.form \in {"json", "embedded", "literal"} THEN content.val ELSE PyNone

-----------------------------------------------------------------------------
(* Conflict Detector and Scheduling Engine (ScheduleService).  A datetime  *)
(* argument is a Python value: PyDatetime(t), or the ISO string a caller   *)
(* passed on unparsed.  Day 0 is a Monday.                                 *)

PyDatetime(t) == [k |-> "datetime", v |-> t]

\* datetime.weekday(): Monday is 0
weekday(t) == (t \div 1440) % 7

DigitChar(n) == CHOOSE c \in Digits : DigitVal(c) = n

RECURSIVE Decimal(_)
\* str(n), n >= 0
Decimal(n) == IF n < 10 THEN <<DigitChar(n)>> ELSE Decimal(n \div 10) \o <<DigitChar(n % 10)>>

RECURSIVE JsonItems(_, _)
\* the items of json.dumps(l) from the n-th on, l a list of ints and strs
JsonItems(l, n) ==
    IF n > Len(l) THEN <<>>
    ELSE (IF n > 1 THEN <<",", " ">> ELSE <<>>)
         \o (IF l[n].k = "int" THEN Decimal(l[n].v) ELSE <<"\"">> \o l[n].v \o <<"\"">>)
         \o JsonItems(l, n + 1)

\* json.dumps(l): the text a JSON column holds, and a JSON parameter is bound as
dumps(l) == <<"[">> \o JsonItems(l, 1) \o <<"]">>

\* Meeting.participants.contains([user_id]) on a column of type JSON:
\* participants LIKE '%' || :param || '%', the parameter bound as JSON
participants_contains(participants, user_id) ==
    Contains(dumps(participants), dumps(<<PyInt(user_id)>>))

RECURSIVE InIdOrder(_)
\* query.all(): the rows by primary key
InIdOrder(A) == IF A = {} THEN <<>> ELSE <<SetMin(A)>> \o InIdOrder(A \ {SetMin(A)})

\* ScheduleService.check_meeting_conflicts: the rows, as ids; a start or end
\* that is not a datetime makes the statement raise, and the result is []
check_meeting_conflicts(db, up, user_id, start_time, end_time) ==
    IF ~up \/ start_time.k # "datetime" \/ end_time.k # "datetime" THEN <<>>
    ELSE InIdOrder({id \in DOMAIN db :
                       /\ db[id].present
                       /\ \/ db[id].organizer_id = user_id
                          \/ participants_contains(db[id].participants, user_id)
                       /\ db[id].status \in {"proposed", "confirmed"}
                       /\ db[id].start_time < end_time.v
                       /\ db[id].end_time > start_time.v})

\* slot_start of each pass of the loops of get_meeting_suggestions: a day
\* for each current_date <= end_date, the hours range(9, 17) of each day
SlotStarts(start_date, end_date) ==
    IF end_date < start_date THEN <<>>
    ELSE [n \in 1..(8 * ((end_date - start_date) \div 1440 + 1)) |->
             combine((start_date + ((n - 1) \div 8) * 1440) \div 1440, 9 + ((n - 1) % 8), 0)]

\* all_available: no participant has a conflict in the slot
AllAvailable(db, up, participant_ids, slot_start, slot_end) ==
    \A n \in 1..Len(participant_ids) :
        check_meeting_conflicts(db, up, participant_ids[n],
                                PyDatetime(slot_start), PyDatetime(slot_end)) = <<>>

\* ScheduleService.get_meeting_suggestions: suggestions[:10]
get_meeting_suggestions(db, up, participant_ids, duration_minutes, start_date, end_date) ==
    LET Feasible(slot_start) ==
            AllAvailable(db, up, participant_ids, slot_start, slot_start + duration_minutes)
        Suggestion(slot_start) ==
            [start_time |-> isoformat(slot_start),
             end_time |-> isoformat(slot_start + duration_minutes),
             date |-> slot_start \div 1440,
             participant_count |-> Len(participant_ids)]
        First10(found) ==
            [n \in 1..(IF Len(found) < 10 THEN Len(found) ELSE 10) |-> Suggestion(found[n])]
    IN  First10(SelectSeq(SlotStarts(start_date, end_date), Feasible))

\* a version of the score that likes the lunch hours best
score_lunch_first(suggestion) ==
    IF HourOf(fromisoformat(suggestion.start_time)) \in 12..13 THEN 20 ELSE 0

\* the score find_optimal_meeting_time gives a suggestion, doubled (the
\* score counts halves: participant_count * 0.5)
score(suggestion) ==
    LET Band(hour) ==
            IF 9 <= hour /\ hour <= 11 THEN 2 * 3
            ELSE IF 14 <= hour /\ hour <= 16 THEN 2 * 2
            ELSE IF 12 <= hour /\ hour <= 13 THEN 2 * (-1)
            ELSE 0
        Week(slot_start) == IF weekday(slot_start) < 5 THEN 2 * 2 ELSE 0
        Of(slot_start) == Band(HourOf(slot_start)) + Week(slot_start)
    IN  Of(fromisoformat(suggestion.start_time)) + suggestion.participant_count

RECURSIVE SortedByScoreDesc(_)
\* scored_suggestions.sort(key=lambda x: x[0], reverse=True): the earlier
\* first among equal scores
SortedByScoreDesc(l) ==
    IF l = <<>> THEN <<>>
    ELSE LET Taking(i) ==
                 <<l[i]>> \o SortedByScoreDesc(SubSeq(l, 1, i - 1) \o SubSeq(l, i + 1, Len(l)))
         IN  Taking(CHOOSE i \in 1..Len(l) :
                        \A j \in 1..Len(l) :
                            \/ score(l[i]) > score(l[j])
                            \/ score(l[i]) = score(l[j]) /\ i <= j)

\* ScheduleService.find_optimal_meeting_time: [ranked, result], ranked the
\* sorted scored_suggestions, result the suggestion returned or None
find_optimal_meeting_time(db, up, participant_ids, duration_minutes, start_date, end_date) ==
    LET Best(ranked) ==
            [ranked |-> ranked,
             result |-> IF ranked = <<>> THEN PyNone ELSE PyDict(ranked[1])]
    IN  Best(SortedByScoreDesc(get_meeting_suggestions(db, up, participant_ids,
                                                       duration_minutes, start_date, end_date)))

\* MeetingUpdate(start_time=..., end_time=...)
MeetingUpdate(start_time, end_time) ==
    [title |-> PyNone, duration_minutes |-> PyNone,
     start_time |-> PyInt(start_time), end_time |-> PyInt(end_time)]

RECURSIVE RescheduleEach(_, _, _, _, _)
\* for conflict in conflicts: [w, rescheduled]; conflict is the row object
\* update_meeting writes to, so its start_time is read after the update
RescheduleEach(acc, up, conflicts, n, start_time) ==
    IF n > Len(conflicts) THEN acc
    ELSE LET conflict == conflicts[n]
             Ids(participants) == [i \in 1..Len(participants) |-> participants[i].v]
             Moved(new_time, updated) ==
                 IF updated.id = 0 THEN [acc EXCEPT !.w = updated.w]
                 ELSE [w |-> updated.w,
                       rescheduled |->
                           Append(acc.rescheduled,
                                  [meeting_id |-> conflict,
                                   title |-> updated.w.db[conflict].title,
                                   old_start_time |-> isoformat(updated.w.db[conflict].start_time),
                                   new_start_time |-> new_time.start_time])]
             Tried(new_suggestions) ==
                 IF new_suggestions = <<>> THEN acc
                 ELSE Moved(new_suggestions[1],
                            update_meeting(acc.w, up, conflict,
                                           MeetingUpdate(fromisoformat(new_suggestions[1].start_time),
                                                         fromisoformat(new_suggestions[1].end_time))))
         IN  RescheduleEach(Tried(get_meeting_suggestions(acc.w.db, up,
                                      Ids(acc.w.db[conflict].participants),
                                      acc.w.db[conflict].duration_minutes,
                                      start_time.v + 1440, start_time.v + 7 * 1440)),
                            up, conflicts, n + 1, start_time)

RECURSIVE RescheduleFor(_, _, _, _)
\* for participant_id in participants
RescheduleFor(acc, up, new_meeting_data, n) ==
    IF n > Len(new_meeting_data.participants) THEN acc
    ELSE RescheduleFor(
             RescheduleEach(acc, up,
                            check_meeting_conflicts(acc.w.db, up, new_meeting_data.participants[n],
                                                    new_meeting_data.start_time,
                                                    new_meeting_data.end_time),
                            1, new_meeting_data.start_time),
             up, new_meeting_data, n + 1)

\* ScheduleService.auto_reschedule_conflicting_meetings: [w, rescheduled]
auto_reschedule_conflicting_meetings(w, up, new_meeting_data) ==
    RescheduleFor([w |-> w, rescheduled |-> <<>>], up, new_meeting_data, 1)
-----------------------------------------------------------------------------
(* Dialogue Agent: the handlers.  A handler that awaits the Text           *)
(* Completion Service is split at the await: the part before it ends in    *)
(* Await(w, pc, loc), and the operator named after pc continues from the   *)
(* reply r with the locals loc.                                            *)

IsStr(x, s) == x.k = "str" /\ x.v = Str(s)

\* the backend validation of the required fields: the list of missing ones
MissingFields(meeting_info) ==
    LET Missing(key, name) == IF Truthy(Get(meeting_info, key)) THEN <<>> ELSE <<name>>
    IN  Missing("title", "meeting title") \o Missing("start_time", "date and time")
        \o Missing("participants", "participants") \o Missing("duration_minutes", "duration")

\* a version of the view handler that opens a request when nothing is scheduled
view_meetings_opens_request(w, up, user_id) ==
    LET Listed(ms) ==
            IF ms = <<>>
            THEN Return(SetPending(w, user_id,
                            [action |-> "create_meeting", partial_info |-> EmptyDict,
                             missing_fields |-> <<>>]),
                        Resp(TRUE, Canned("view_none_offer_schedule", <<>>)))
            ELSE Return(w, Resp(TRUE, Canned("view_many", <<PyInt(Len(ms)), Titles(w.db, ms)>>)))
    IN  Listed(get_user_meetings(w.db, up, user_id))

_handle_view_meetings_conversational(w, up, user_id) ==
    LET Listed(ms) ==
            IF ms = <<>> THEN Return(w, Resp(TRUE, Canned("view_none_offer_schedule", <<>>)))
            ELSE IF Len(ms) = 1
            THEN Return(w, Resp(TRUE, Canned("view_one", <<TitleOf(w.db, ms[1])>>)))
            ELSE Return(w, Resp(TRUE, Canned("view_many", <<PyInt(Len(ms)), Titles(w.db, ms)>>)))
    IN  Listed(get_user_meetings(w.db, up, user_id))

RECURSIVE ParticipantIds(_, _, _)
\* the loop over participants of _create_meeting_from_data
ParticipantIds(up, items, n) ==
    IF n > Len(items) THEN <<>>
    ELSE LET p == items[n]
             found == get_user_by_email(up, p.v)
             here == IF p.k = "str" /\ Contains(p.v, <<"@">>)
                     THEN (IF found # 0 THEN <<PyInt(found)>> ELSE <<>>)
                     ELSE <<p>>
         IN  here \o ParticipantIds(up, items, n + 1)

\* [w, id], id = 0 for None
_create_meeting_from_data(w, up, meeting_data, user_id) ==
    LET start == meeting_data.start_time
        duration == meeting_data.duration_minutes
        parts == meeting_data.participants
        items == IF parts.k = "list" THEN parts.v
                 ELSE [n \in 1..Len(parts.v) |-> PyStr(<<parts.v[n]>>)]
        start_time == fromisoformat(start)
        meeting_obj == [title |-> meeting_data.title,
                        description |-> meeting_data.description,
                        duration_minutes |-> duration.v,
                        start_time |-> start_time,
                        end_time |-> start_time + duration.v,
                        organizer_id |-> user_id,
                        participants |-> ParticipantIds(up, items, 1),
                        status |-> "confirmed"]
    IN  IF ~IsIso(start) \/ duration.k # "int" \/ parts.k \notin {"list", "str"}
        THEN [w |-> w, id |-> 0]
        ELSE create_meeting(w, up, meeting_obj)

\* an update that writes the fields given and leaves end_time as it was
update_from_data_keeps_end(w, up, meeting_id, updates) ==
    LET existing_meeting == get_meeting(w.db, up, meeting_id)
        u == updates.v
        Has(key) == key \in DOMAIN u
        meeting_update ==
            [title |-> IF Has("title") THEN u.title ELSE PyNone,
             duration_minutes |-> IF Has("duration_minutes") THEN u.duration_minutes ELSE PyNone,
             start_time |-> IF Has("start_time") THEN PyInt(fromisoformat(u.start_time)) ELSE PyNone,
             end_time |-> PyNone]
    IN  IF existing_meeting = 0 THEN [w |-> w, id |-> 0]
        ELSE IF updates.k # "dict" THEN [w |-> w, id |-> 0]
        ELSE IF \/ Has("start_time") /\ ~IsIso(u.start_time)
                \/ Has("duration_minutes") /\ u.duration_minutes.k # "int"
                \/ Has("title") /\ u.title.k \notin {"str", "none"}
        THEN [w |-> w, id |-> 0]
        ELSE update_meeting(w, up, meeting_id, meeting_update)

\* [w, id], id = 0 for None
_update_meeting_from_data(w, up, meeting_id, updates) ==
    LET existing_meeting == get_meeting(w.db, up, meeting_id)
        u == updates.v
        Has(key) == key \in DOMAIN u
        new_duration == IF Has("duration_minutes") THEN u.duration_minutes
                        ELSE PyInt(w.db[meeting_id].duration_minutes)
        new_start == IF Has("start_time") THEN fromisoformat(u.start_time)
                     ELSE w.db[meeting_id].start_time
        meeting_update ==
            [title |-> IF Has("title") THEN u.title ELSE PyNone,
             duration_minutes |-> IF Has("duration_minutes") THEN new_duration ELSE PyNone,
             start_time |-> IF Has("start_time") THEN PyInt(new_start) ELSE PyNone,
             end_time |-> PyInt(new_start + new_duration.v)]
    IN  IF existing_meeting = 0 THEN [w |-> w, id |-> 0]
        ELSE IF updates.k # "dict" THEN [w |-> w, id |-> 0]
        ELSE IF \/ Has("start_time") /\ ~IsIso(u.start_time)
                \/ new_duration.k # "int"
                \/ Has("title") /\ u.title.k \notin {"str", "none"}
        THEN [w |-> w, id |-> 0]
        ELSE update_meeting(w, up, meeting_id, meeting_update)

\* the part of _create_meeting_with_info before its await
_create_meeting_with_info(w, up, user_id, meeting_info) ==
    LET meeting_data ==
            [title |-> GetOr(meeting_info, "title", PyStr(Str("Untitled Meeting"))),
             description |-> GetOr(meeting_info, "description", PyStr(<<>>)),
             duration_minutes |-> GetOr(meeting_info, "duration_minutes", PyInt(60)),
             participants |-> GetOr(meeting_info, "participants", PyList(<<PyInt(user_id)>>)),
             start_time |-> GetOr(meeting_info, "start_time", PyStr(<<>>)),
             location |-> GetOr(meeting_info, "location", PyStr(Str("TBD")))]
        Made(meeting) ==
            IF meeting.id # 0
            THEN Await(meeting.w, "create_success", [meeting |-> meeting.id])
            ELSE Return(meeting.w, Resp(FALSE, Canned("could_not_schedule", <<>>)))
    IN  IF ~Truthy(meeting_data.start_time)
        THEN Return(w, Resp(FALSE, Canned("need_date_and_time", <<>>)))
        ELSE Made(_create_meeting_from_data(w, up, meeting_data, user_id))

\* _create_meeting_with_info from the reply to its success prompt
create_success(w, loc, r) ==
    IF r.raises
    THEN Return(w, Resp(TRUE, Canned("scheduled", <<TitleOf(w.db, loc.meeting),
                                                    PyInt(w.db[loc.meeting].start_time),
                                                    PyInt(w.db[loc.meeting].duration_minutes)>>)))
    ELSE Return(w, Resp(TRUE, LlmText(r.content)))

_handle_create_meeting_conversational(w) == Await(w, "create_extract", NoLoc)

\* _handle_create_meeting_conversational from the reply to its first prompt
create_extract(w, user_id, message, r) ==
    LET action_data == _extract_json_from_llm_output(r.content)
        ad == action_data.v
        use_rules == \/ ~Truthy(action_data)
                     \/ /\ ~IsStr(Get(ad, "action"), "create_meeting")
                        /\ ~IsStr(Get(ad, "action"), "suggest_alternative")
        from_llm == [title |-> Get(ad, "title"),
                     start_time |-> Get(ad, "start_time"),
                     duration_minutes |-> Get(ad, "duration_minutes"),
                     participants |-> Get(ad, "participants"),
                     description |-> GetOr(ad, "description", PyStr(<<>>)),
                     location |-> GetOr(ad, "location", PyStr(Str("TBD")))]
        Validated(meeting_info, missing_info) ==
            IF missing_info # <<>>
            THEN Await(w, "create_question",
                       [meeting_info |-> meeting_info, missing_info |-> missing_info])
            ELSE Return(SetPending(w, user_id,
                            [action |-> "confirm_create_meeting",
                             meeting_proposal |-> meeting_info]),
                        Resp(TRUE, Canned("ready_to_schedule",
                                          <<Get(meeting_info, "title"),
                                            Get(meeting_info, "start_time")>>)))
        With(meeting_info) ==
            IF ~use_rules /\ IsStr(Get(ad, "action"), "suggest_alternative")
            THEN Return(SetPending(w, user_id,
                            [action |-> "create_meeting",
                             partial_info |-> meeting_info,
                             missing_fields |-> <<>>,
                             suggested_alternative |-> Get(ad, "start_time")]),
                        Resp(TRUE, Canned("conflict_alternative", <<Get(ad, "start_time")>>)))
            ELSE Validated(meeting_info, MissingFields(meeting_info))
        ByRules(rules) == IF rules.raised THEN Raise(w) ELSE With(rules.info)
        out ==
            IF r.raises THEN Raise(w)
            ELSE IF Truthy(action_data) /\ action_data.k # "dict" THEN Raise(w)
            ELSE IF use_rules THEN ByRules(_extract_meeting_info(message))
            ELSE With(from_llm)
    IN  CaughtBy(out, Canned("trouble_understanding_details", <<>>))

\* _handle_create_meeting_conversational from the reply to its question prompt
create_question(w, user_id, loc, r) ==
    LET stored == SetPending(w, user_id,
                      [action |-> "create_meeting",
                       partial_info |-> loc.meeting_info,
                       missing_fields |-> loc.missing_info])
    IN  IF r.raises
        THEN Return(stored, Resp(TRUE, Canned("need_more_details", <<loc.missing_info>>)))
        ELSE Return(stored, Resp(TRUE, LlmText(r.content)))

_handle_update_meeting_conversational(w) == Await(w, "update_extract", NoLoc)

\* whether  for m in ms: m.title.lower() == target.lower()  raises, and the
\* index of the first row it takes among the accepted ones (0 for none)
TitleLoop(db, ms, target, accepted) ==
    LET Upto(hits, bad) ==
            IF bad # {} /\ (hits = {} \/ SetMin(bad) < SetMin(hits))
            THEN [raised |-> TRUE, n |-> 0]
            ELSE [raised |-> FALSE, n |-> IF hits = {} THEN 0 ELSE SetMin(hits)]
    IN  Upto({n \in 1..Len(ms) : db[ms[n]].title.k = "str" /\ target.k = "str"
                                  /\ lower(db[ms[n]].title.v) = lower(target.v)
                                  /\ ms[n] \in accepted},
             {n \in 1..Len(ms) : db[ms[n]].title.k # "str" \/ target.k # "str"})

\* _handle_update_meeting_conversational from the reply to its prompt
update_extract(w, up, user_id, message, r) ==
    LET action_data == _extract_json_from_llm_output(r.content)
        ad == action_data.v
        is_update == Truthy(action_data) /\ IsStr(Get(ad, "action"), "update_meeting")
        Applied(updated_meeting) ==
            IF updated_meeting.id # 0
            THEN Return(updated_meeting.w,
                        Resp(TRUE, Canned("updated",
                                          <<TitleOf(updated_meeting.w.db, updated_meeting.id)>>)))
            ELSE Return(updated_meeting.w, Resp(FALSE, Canned("could_not_update", <<>>)))
        Decided(ms, target_meeting, updates) ==
            IF ms = <<>>
            THEN Return(w, Resp(TRUE, Canned("nothing_to_update", <<>>)))
            ELSE IF target_meeting = 0
            THEN Return(SetPending(w, user_id,
                            [action |-> "update_meeting", available_meetings |-> ms]),
                        Resp(TRUE, Canned("which_to_update", <<Titles(w.db, ms)>>)))
            ELSE IF ~Truthy(updates)
            THEN Return(SetPending(w, user_id,
                            [action |-> "update_meeting_details",
                             target_meeting |-> target_meeting]),
                        Resp(TRUE, Canned("found_what_change", <<TitleOf(w.db, target_meeting)>>)))
            ELSE Applied(_update_meeting_from_data(w, up, target_meeting, updates))
        Fallback(ms, identified, extracted) ==
            IF identified.raised \/ extracted.raised THEN Raise(w)
            ELSE Decided(ms, identified.id, PyDict(extracted.updates))
        Chosen(ms, loop, updates) ==
            IF loop.raised THEN Raise(w)
            ELSE IF loop.n = 0 \/ ~Truthy(updates)
            THEN Fallback(ms, _identify_meeting_from_message(message, ms, w.db),
                          _extract_update_info(message))
            ELSE Decided(ms, ms[loop.n], updates)
        Listed(ms) ==
            Chosen(ms,
                   IF is_update /\ Truthy(Get(ad, "target_title"))
                   THEN TitleLoop(w.db, ms, Get(ad, "target_title"), DOMAIN w.db)
                   ELSE [raised |-> FALSE, n |-> 0],
                   IF is_update THEN Get(ad, "updates") ELSE PyNone)
        out ==
            IF r.raises THEN Raise(w)
            ELSE IF Truthy(action_data) /\ action_data.k # "dict" THEN Raise(w)
            ELSE Listed(get_user_meetings(w.db, up, user_id))
    IN  CaughtBy(out, Canned("trouble_try_again", <<>>))

_handle_delete_meeting_conversational(w) == Await(w, "delete_extract", NoLoc)

\* _handle_delete_meeting_conversational from the reply to its prompt
delete_extract(w, up, user_id, message, r) ==
    LET action_data == _extract_json_from_llm_output(r.content)
        ad == action_data.v
        is_delete == Truthy(action_data) /\ IsStr(Get(ad, "action"), "delete_meeting")
        start == Get(ad, "start_time")
        AtStart(id) == ~Truthy(start) \/ (IsIso(start) /\ isoformat(w.db[id].start_time) = start)
        Decided(ms, target_meeting) ==
            IF ms = <<>>
            THEN Return(w, Resp(TRUE, Canned("nothing_to_cancel", <<>>)))
            ELSE IF target_meeting = 0
            THEN IF Truthy(action_data) /\ IsStr(Get(ad, "action"), "clarify_delete")
                 THEN Return(w, Resp(TRUE, Canned("need_more_to_identify",
                                                  <<GetOr(ad, "missing", PyStr(Str("details")))>>)))
                 ELSE Return(SetPending(w, user_id,
                                 [action |-> "delete_meeting", available_meetings |-> ms]),
                             Resp(TRUE, Canned("which_to_cancel", <<Titles(w.db, ms)>>)))
            ELSE Return(SetPending(w, user_id,
                            [action |-> "confirm_delete_meeting",
                             target_meeting |-> target_meeting]),
                        Resp(TRUE, Canned("sure_to_delete", <<TitleOf(w.db, target_meeting)>>)))
        Chosen(ms, loop) ==
            IF loop.raised THEN Raise(w)
            ELSE Decided(ms, IF loop.n = 0 THEN 0 ELSE ms[loop.n])
        Listed(ms) ==
            Chosen(ms,
                   IF is_delete /\ Truthy(Get(ad, "target_title"))
                   THEN TitleLoop(w.db, ms, Get(ad, "target_title"),
                             {id \in DOMAIN w.db : AtStart(id)})
                   ELSE [raised |-> FALSE, n |-> 0])
        out ==
            IF r.raises THEN Raise(w)
            ELSE IF Truthy(action_data) /\ action_data.k # "dict" THEN Raise(w)
            ELSE Listed(get_user_meetings(w.db, up, user_id))
    IN  CaughtBy(out, Canned("trouble_try_again", <<>>))

_handle_delete_all_meetings_conversational(w, up, user_id) ==
    LET Listed(ms) ==
            IF ms = <<>> THEN Return(w, Resp(TRUE, Canned("nothing_to_cancel", <<>>)))
            ELSE Return(SetPending(w, user_id,
                            [action |-> "confirm_delete_all", meeting_count |-> Len(ms)]),
                        Resp(TRUE, Canned("sure_to_cancel_all", <<PyInt(Len(ms))>>)))
    IN  Listed(get_user_meetings(w.db, up, user_id))

\* the part of _handle_general_conversation before its await
_handle_general_conversation(w, message) ==
    LET message_lower == lower(message)
    IN  IF AnyIn(message_lower, {"help", "what can you do", "how", "?"})
        THEN Return(w, RespNoEnhance(TRUE, Canned("help", <<>>)))
        ELSE IF AnyIn(message_lower, {"hello", "hi", "hey", "good morning", "good afternoon"})
        THEN Return(w, RespNoEnhance(TRUE, Canned("greeting", <<>>)))
        ELSE Await(w, "general", NoLoc)

\* a version of the continuation without the fallback text
general_without_fallback(w, r) == Return(w, Resp(TRUE, LlmText(r.content)))

\* _handle_general_conversation from the reply to its prompt
general(w, r) ==
    IF r.raises
    THEN Return(w, Resp(TRUE, Canned(IF r.quota THEN "here_to_help_high_usage"
                                     ELSE "here_to_help", <<>>)))
    ELSE Return(w, Resp(TRUE, LlmText(r.content)))

_handle_intent(w, up, user_id, message, intent) ==
    CASE intent = "view_meetings" -> _handle_view_meetings_conversational(w, up, user_id)
      [] intent = "create_meeting" -> _handle_create_meeting_conversational(w)
      [] intent = "update_meeting" -> _handle_update_meeting_conversational(w)
      [] intent = "delete_meeting" -> _handle_delete_meeting_conversational(w)
      [] intent = "delete_all_meetings" -> _handle_delete_all_meetings_conversational(w, up, user_id)
      [] OTHER -> _handle_general_conversation(w, message)
-----------------------------------------------------------------------------
(* Dialogue Agent: the handlers of a turn that finds a pending action.     *)

\* a version of the list that takes any short answer
AffirmativeOrNot == {Str("yes"), Str("y"), Str("confirm"), Str("ok"), Str("no")}

\* ["yes", "y", "confirm", "ok"]
Affirmative == {Str("yes"), Str("y"), Str("confirm"), Str("ok")}

\* the fallback follow-up of _handle_create_meeting_clarification
FollowupFallback(still_missing) ==
    IF Len(still_missing) = 1
    THEN CASE still_missing[1] = "meeting title" -> Canned("what_to_call_it", <<>>)
           [] still_missing[1] = "date and time" -> Canned("when", <<>>)
           [] still_missing[1] = "participants" -> Canned("who_to_invite", <<>>)
           [] still_missing[1] = "duration" -> Canned("how_long", <<>>)
           [] OTHER -> Canned("need_to_know", <<still_missing>>)
    ELSE Canned("need_a_bit_more", <<still_missing>>)

\* the part of _handle_create_meeting_clarification before its await;
\* partial_info is the dictionary the entry holds, updated in place
_handle_create_meeting_clarification(w, up, user_id, message, pending) ==
    LET Checked(merged, partial_info, still_missing) ==
            IF still_missing # <<>>
            THEN Await(merged, "clarify_followup",
                       [partial_info |-> partial_info, still_missing |-> still_missing])
            ELSE IF user_id \notin DOMAIN merged.pa THEN Raise(merged)
            ELSE _create_meeting_with_info(DelPending(merged, user_id), up, user_id, partial_info)
        Merged(partial_info) ==
            Checked(IF user_id \in DOMAIN w.pa /\ "partial_info" \in DOMAIN w.pa[user_id]
                    THEN [w EXCEPT !.pa[user_id] = Put(@, "partial_info", partial_info)]
                    ELSE w,
                    partial_info, MissingFields(partial_info))
        Extracted(new_info) ==
            IF new_info.raised THEN Raise(w)
            ELSE Merged(Update(pending.partial_info, new_info.info))
    IN  IF "partial_info" \notin DOMAIN pending \/ "missing_fields" \notin DOMAIN pending
        THEN Raise(w)
        ELSE Extracted(_extract_meeting_info(message))

\* _handle_create_meeting_clarification from the reply to its follow-up prompt
clarify_followup(w, user_id, loc, r) ==
    LET stored == IF user_id \in DOMAIN w.pa /\ "partial_info" \in DOMAIN w.pa[user_id]
                  THEN [w EXCEPT !.pa[user_id] =
                            Put(Put(@, "partial_info", loc.partial_info),
                                "missing_fields", loc.still_missing)]
                  ELSE w
    IN  IF r.raises
        THEN Return(stored, Resp(TRUE, FollowupFallback(loc.still_missing)))
        ELSE Return(stored, Resp(TRUE, LlmText(r.content)))

\* a version of the selection that takes a number past the list as the last
SelectionClamps(db, message, meetings_) ==
    IF isdigit(strip(message)) /\ meetings_ # <<>>
    THEN [k |-> "found",
          id |-> meetings_[IF int(strip(message)) \in 1..Len(meetings_)
                           THEN int(strip(message)) ELSE Len(meetings_)]]
    ELSE [k |-> "name", id |-> 0]

\* the selection of a meeting by number or by name: [k, id] with k one of
\* "found", "number", "name", "except"
Selection(db, message, meetings_) ==
    LET ByNumber(index) ==
            IF 0 <= index /\ index < Len(meetings_)
            THEN [k |-> "found", id |-> meetings_[index + 1]]
            ELSE [k |-> "number", id |-> 0]
        ByName(identified) ==
            IF identified.raised THEN [k |-> "except", id |-> 0]
            ELSE IF identified.id = 0 THEN [k |-> "name", id |-> 0]
            ELSE [k |-> "found", id |-> identified.id]
    IN  IF isdigit(strip(message)) THEN ByNumber(int(strip(message)) - 1)
        ELSE ByName(_identify_meeting_from_message(message, meetings_, db))

NotSelected(w, sel) ==
    Return(w, Resp(TRUE, Canned(CASE sel.k = "number" -> "number_matches_no_meeting"
                                  [] sel.k = "name" -> "could_not_find_meeting"
                                  [] OTHER -> "did_not_understand", <<>>)))

_handle_update_meeting_selection(w, user_id, message, pending) ==
    LET Selected(sel) ==
            IF sel.k # "found" THEN NotSelected(w, sel)
            ELSE Return(SetPending(w, user_id,
                            [action |-> "update_meeting_details", target_meeting |-> sel.id]),
                        Resp(TRUE, Canned("found_what_change", <<TitleOf(w.db, sel.id)>>)))
    IN  IF "available_meetings" \notin DOMAIN pending THEN Raise(w)
        ELSE Selected(Selection(w.db, message, pending.available_meetings))

\* a selection handler that deletes the selected meeting without asking
delete_selection_at_once(w, user_id, message, pending) ==
    LET Selected(sel) ==
            IF sel.k # "found" THEN NotSelected(w, sel)
            ELSE Return(DelPending(delete_meeting(w, TRUE, sel.id, 0).w, user_id),
                        Resp(TRUE, Canned("deleted", <<TitleOf(w.db, sel.id)>>)))
    IN  IF "available_meetings" \notin DOMAIN pending THEN Raise(w)
        ELSE Selected(Selection(w.db, message, pending.available_meetings))

_handle_delete_meeting_selection(w, user_id, message, pending) ==
    LET Selected(sel) ==
            IF sel.k # "found" THEN NotSelected(w, sel)
            ELSE Return(SetPending(w, user_id,
                            [action |-> "confirm_delete_meeting", target_meeting |-> sel.id]),
                        Resp(TRUE, Canned("sure_to_delete_yes_no", <<TitleOf(w.db, sel.id)>>)))
    IN  IF "available_meetings" \notin DOMAIN pending THEN Raise(w)
        ELSE Selected(Selection(w.db, message, pending.available_meetings))

_handle_update_meeting_details(w, up, user_id, message, pending) ==
    LET Applied(updated_meeting) ==
            IF user_id \notin DOMAIN updated_meeting.w.pa
            THEN Return(updated_meeting.w, Resp(FALSE, Canned("trouble_updating", <<>>)))
            ELSE IF updated_meeting.id # 0
            THEN Return(DelPending(updated_meeting.w, user_id),
                        Resp(TRUE, Canned("updated",
                                          <<TitleOf(updated_meeting.w.db, updated_meeting.id)>>)))
            ELSE Return(DelPending(updated_meeting.w, user_id),
                        Resp(FALSE, Canned("could_not_update", <<>>)))
        Extracted(extracted) ==
            IF extracted.raised THEN Raise(w)
            ELSE IF DOMAIN extracted.updates = {}
            THEN Return(w, Resp(TRUE, Canned("what_to_change", <<>>)))
            ELSE Applied(_update_meeting_from_data(w, up, pending.target_meeting,
                                                   PyDict(extracted.updates)))
    IN  IF "target_meeting" \notin DOMAIN pending THEN Raise(w)
        ELSE Extracted(_extract_update_info(message))

\* the confirm_delete_meeting branch of _handle_pending_action
ConfirmDeleteMeeting(w, up, user_id, message, pending) ==
    LET Deleted(after) ==
            IF user_id \notin DOMAIN after.pa THEN Raise(after)
            ELSE Return(DelPending(after, user_id),
                        Resp(TRUE, Canned("deleted", <<TitleOf(w.db, pending.target_meeting)>>)))
    IN  IF lower(strip(message)) \in Affirmative
        THEN IF "target_meeting" \notin DOMAIN pending THEN Raise(w)
             ELSE Deleted(delete_meeting(w, up, pending.target_meeting, 0).w)
        ELSE IF user_id \notin DOMAIN w.pa THEN Raise(w)
        ELSE Return(DelPending(w, user_id), Resp(TRUE, Canned("still_scheduled", <<>>)))

_handle_confirm_delete(w, up, user_id, message, pending) ==
    LET Deleted(after) ==
            IF user_id \notin DOMAIN after.pa
            THEN Return(after, Resp(FALSE, Canned("could_not_cancel", <<>>)))
            ELSE Return(DelPending(after, user_id),
                        Resp(TRUE, Canned("cancelled", <<TitleOf(w.db, pending.target_meeting)>>)))
    IN  IF "target_meeting" \notin DOMAIN pending THEN Raise(w)
        ELSE IF lower(strip(message)) \in Affirmative
        THEN Deleted(delete_meeting(w, up, pending.target_meeting, 0).w)
        ELSE IF user_id \notin DOMAIN w.pa THEN Raise(w)
        ELSE Return(DelPending(w, user_id), Resp(TRUE, Canned("still_scheduled", <<>>)))

RECURSIVE DeleteEach(_, _, _, _)
\* for meeting in meetings: delete_meeting(meeting.id)
DeleteEach(w, up, ms, n) ==
    IF n > Len(ms) THEN w
    ELSE DeleteEach(delete_meeting(w, up, ms[n], 0).w, up, ms, n + 1)

_handle_confirm_delete_all(w, up, user_id, message, pending) ==
    LET Deleted(after) ==
            IF user_id \notin DOMAIN after.pa
            THEN Return(after, Resp(FALSE, Canned("could_not_cancel_all", <<>>)))
            ELSE Return(DelPending(after, user_id),
                        Resp(TRUE, Canned("cancelled_all", <<PyInt(pending.meeting_count)>>)))
    IN  IF "meeting_count" \notin DOMAIN pending THEN Raise(w)
        ELSE IF lower(strip(message)) \in Affirmative
        THEN Deleted(DeleteEach(w, up, get_user_meetings(w.db, up, user_id), 1))
        ELSE IF user_id \notin DOMAIN w.pa THEN Raise(w)
        ELSE Return(DelPending(w, user_id), Resp(TRUE, Canned("all_still_scheduled", <<>>)))

\* the confirm_create_meeting branch of _handle_pending_action, before its await
ConfirmCreateMeeting(w, up, user_id, message, pending) ==
    LET said == lower(strip(message))
    IN  IF said \in {Str("yes"), Str("that's enough"), Str("confirm"), Str("ok"), Str("go ahead")}
        THEN IF "meeting_proposal" \notin DOMAIN pending \/ user_id \notin DOMAIN w.pa
             THEN Raise(w)
             ELSE _create_meeting_with_info(DelPending(w, user_id), up, user_id,
                                            pending.meeting_proposal)
        ELSE IF said \in {Str("add info"), Str("add more"), Str("more info"), Str("add details")}
        THEN IF "meeting_proposal" \notin DOMAIN pending THEN Raise(w)
             ELSE Await(w, "add_info", NoLoc)
        ELSE _handle_create_meeting_clarification(w, up, user_id, message, pending)

\* a version of the except clause that leaves the entry
PendingCaughtKeeps(out, user_id) ==
    IF out.k # "raise" THEN out
    ELSE Return([out.w EXCEPT !.raised = TRUE],
                Resp(FALSE, Canned("trouble_lets_start_over", <<>>)))

\* the except clause of _handle_pending_action: the entry is deleted; when
\* there is none the KeyError leaves the handler
PendingCaught(out, user_id) ==
    IF out.k # "raise" THEN out
    ELSE IF user_id \in DOMAIN out.w.pa
    THEN Return([DelPending(out.w, user_id) EXCEPT !.raised = TRUE],
                Resp(FALSE, Canned("trouble_lets_start_over", <<>>)))
    ELSE Raise([out.w EXCEPT !.raised = TRUE])

\* the confirm_create_meeting branch from the reply to its add-info prompt
add_info(w, user_id, r) ==
    LET updated_proposal == _extract_json_from_llm_output(r.content)
        stored == [w EXCEPT !.pa[user_id] = Put(@, "meeting_proposal", updated_proposal.v)]
        out ==
            IF r.raises THEN Raise(w)
            ELSE IF ~Truthy(updated_proposal)
            THEN Return(w, Resp(FALSE, Canned("could_not_update_proposal", <<>>)))
            ELSE IF user_id \notin DOMAIN w.pa THEN Raise(w)
            ELSE IF updated_proposal.k # "dict" THEN Raise(stored)
            ELSE Return(stored, Resp(TRUE, Canned("updated_proposal",
                                                  <<Get(updated_proposal.v, "title"),
                                                    Get(updated_proposal.v, "start_time")>>)))
    IN  PendingCaught(out, user_id)

_handle_pending_action(w, up, user_id, message) ==
    LET pending == w.pa[user_id]
        action == pending.action
        out ==
            CASE action = "create_meeting" ->
                    _handle_create_meeting_clarification(w, up, user_id, message, pending)
              [] action = "confirm_create_meeting" ->
                    ConfirmCreateMeeting(w, up, user_id, message, pending)
              [] action = "delete_meeting" ->
                    _handle_delete_meeting_selection(w, user_id, message, pending)
              [] action = "confirm_delete_meeting" ->
                    ConfirmDeleteMeeting(w, up, user_id, message, pending)
              [] action = "update_meeting" ->
                    _handle_update_meeting_selection(w, user_id, message, pending)
              [] action = "update_meeting_details" ->
                    _handle_update_meeting_details(w, up, user_id, message, pending)
              [] action = "confirm_delete" ->
                    _handle_confirm_delete(w, up, user_id, message, pending)
              [] action = "confirm_delete_all" ->
                    _handle_confirm_delete_all(w, up, user_id, message, pending)
              [] OTHER -> _handle_general_conversation(DelPending(w, user_id), message)
    IN  PendingCaught(out, user_id)
-----------------------------------------------------------------------------
(* process_message.  A call of process_message runs in a slot of frames:   *)
(* pc is "idle" before the first call, the await it is suspended at while  *)
(* in flight, and "done" once it has returned.  A done frame keeps what    *)
(* the call saw and did: pa0 and db0 (pending_actions and meetings when it *)
(* started), calls (store mutations invoked), raised (an exception reached *)
(* an except clause of a boundary), llm (the outcome of each Text          *)
(* Completion Service call, TRUE for a reply), hresp (the handler's        *)
(* reply), enh (what the service answered to the rephrasing prompt) and    *)
(* resp (the reply returned).  call numbers the calls in their order of    *)
(* arrival and during holds the calls that were suspended when this one    *)
(* started; wrote is the pending action the call last stored for its user  *)
(* (empty once it deleted the entry) and over the pending action of        *)
(* another call that it last replaced or deleted, with the number of that  *)
(* call.                                                                   *)

Slots == {1, 2}

AwaitPcs == {"create_extract", "create_question", "update_extract", "delete_extract",
             "general", "add_info", "clarify_followup", "create_success", "enhance"}

IdleFrame ==
    [pc |-> "idle", user |-> 0, message |-> "", loc |-> NoLoc,
     pa0 |-> EmptyDict, db0 |-> EmptyDict, calls |-> <<>>, raised |-> FALSE, llm |-> <<>>,
     call |-> 0, during |-> {}, wrote |-> <<>>, over |-> <<>>,
     hresp |-> NoResp, enh |-> <<>>, resp |-> NoResp]

InFlight(s) == frames[s].pc \in AwaitPcs

\* the reply of the except clause of process_message
TroubleRightNow == Resp(FALSE, Canned("trouble_right_now", <<>>))

\* whether the text mentions api, limit, quota or temporarily
MentionsUsage(message) == message.api

\* a version of the rephrasing that takes a text of 10 or of 500 characters
enhance_takes_the_bounds(response, r) ==
    IF ~r.raises /\ r.content.len >= 10 /\ r.content.len <= 500
    THEN [response EXCEPT !.message = LlmText(r.content)]
    ELSE response

\* a version of the rephrasing that never adds the note about usage
enhance_without_note(response, r) ==
    IF ~r.raises /\ r.content.len > 10 /\ r.content.len < 500
    THEN [response EXCEPT !.message = LlmText(r.content)]
    ELSE response

\* _enhance_response_with_llm from the reply to its prompt: the response
\* process_message goes on with
_enhance_response_with_llm(response, r) ==
    IF r.raises
    THEN IF r.quota /\ ~MentionsUsage(response.message)
         THEN [response EXCEPT !.message.note = TRUE]
         ELSE response
    ELSE IF r.content.len > 10 /\ r.content.len < 500
    THEN [response EXCEPT !.message = LlmText(r.content)]
    ELSE response

\* self.conversation_history[user_id].append({"role": role, "content": content})
Appended(history, user_id, role, content) ==
    [x \in DOMAIN history \cup {user_id} |->
        IF x = user_id
        THEN Append(IF user_id \in DOMAIN history THEN history[user_id] ELSE <<>>,
                    [role |-> role, content |-> content])
        ELSE history[x]]

\* the handler process_message dispatches to
Dispatch(w, up, user_id, message) ==
    IF user_id \in DOMAIN w.pa
    THEN _handle_pending_action(w, up, user_id, Str(message))
    ELSE _handle_intent(w, up, user_id, Str(message), _analyze_intent(Str(message)))

\* the handler in frame f from the reply r to the prompt it awaits
Resume(w, up, f, r) ==
    CASE f.pc = "create_extract" -> create_extract(w, f.user, Str(f.message), r)
      [] f.pc = "create_question" -> create_question(w, f.user, f.loc, r)
      [] f.pc = "update_extract" -> update_extract(w, up, f.user, Str(f.message), r)
      [] f.pc = "delete_extract" -> delete_extract(w, up, f.user, Str(f.message), r)
      [] f.pc = "general" -> general(w, r)
      [] f.pc = "add_info" -> add_info(w, f.user, r)
      [] f.pc = "clarify_followup" -> clarify_followup(w, f.user, f.loc, r)
      [] f.pc = "create_success" -> create_success(w, f.loc, r)

\* a version of the except clause that lets the exception go
process_message_reraises(out) == out

\* the except clause of process_message: the error reply, nothing appended
\* to the history
process_message_except(out) ==
    IF out.k = "raise"
    THEN [out EXCEPT !.k = "caught", !.w.raised = TRUE, !.resp = TroubleRightNow]
    ELSE out

\* process_message goes on from the outcome of a piece of a handler; pc
\* "escaped": an exception has left process_message
Proceed(slot, frame, out0, history) ==
    LET out == process_message_except(out0)
        u == frame.user
        had == u \in DOMAIN pending_actions
        has == u \in DOMAIN out.w.pa
        writers == {frames[x].call :
                       x \in {y \in Slots \ {slot} : /\ frames[y].user = u /\ had
                                                     /\ frames[y].wrote = <<pending_actions[u]>>}}
        f == [frame EXCEPT !.calls = out.w.calls, !.raised = out.w.raised,
                           !.wrote = IF has /\ (~had \/ out.w.pa[u] # pending_actions[u])
                                     THEN <<out.w.pa[u]>>
                                     ELSE IF had /\ ~has THEN <<>> ELSE @,
                           !.over = IF /\ had /\ (~has \/ out.w.pa[u] # pending_actions[u])
                                       /\ frame.wrote # <<pending_actions[u]>>
                                       /\ writers # {}
                                    THEN <<[call |-> SetMax(writers),
                                            action |-> pending_actions[u]]>>
                                    ELSE @]
    IN  /\ pending_actions' = out.w.pa
        /\ plan' = plan
        /\ meetings' = out.w.db
        /\ next_id' = out.w.nid
        /\ CASE out.k = "await" ->
                  /\ frames' = [frames EXCEPT ![slot] = [f EXCEPT !.pc = out.pc, !.loc = out.loc]]
                  /\ conversation_history' = history
             [] out.k = "return" /\ out.resp.success /\ ~out.resp.needs_llm_enhancement ->
                  /\ frames' = [frames EXCEPT ![slot] =
                                   [f EXCEPT !.pc = "enhance", !.loc = NoLoc,
                                             !.hresp = out.resp, !.resp = out.resp]]
                  /\ conversation_history' = history
             [] out.k = "return" /\ ~(out.resp.success /\ ~out.resp.needs_llm_enhancement) ->
                  /\ frames' = [frames EXCEPT ![slot] =
                                   [f EXCEPT !.pc = "done", !.loc = NoLoc,
                                             !.hresp = out.resp, !.resp = out.resp]]
                  /\ conversation_history' =
                         Appended(history, f.user, "assistant", out.resp.message)
             [] out.k = "caught" ->
                  /\ frames' = [frames EXCEPT ![slot] =
                                   [f EXCEPT !.pc = "done", !.loc = NoLoc, !.resp = out.resp]]
                  /\ conversation_history' = history
             [] out.k = "raise" ->
                  /\ frames' = [frames EXCEPT ![slot] = [f EXCEPT !.pc = "escaped", !.loc = NoLoc]]
                  /\ conversation_history' = history
-----------------------------------------------------------------------------
(* The environment: what users say, what the Text Completion Service       *)
(* answers, and the meetings the table holds when the agent is built.      *)

MaxTurns == 2

\* the turns of a run of selections, and of a run of overlapping calls
MaxRetryTurns == 3

MaxRaceTurns == 3

\* what a user says to open a request
Openers ==
    {"show my meetings",
     "schedule a meeting tomorrow at 2pm for 30 minutes with a@b.com",
     "set up a call at 2pm for 30 minutes with a@b.com",
     "book a room", "cancel", "cancel my meetings", "delete all", "edit", "edit sync", "hello",
     "thanks"}

\* what a user says in answer to a question of the agent
Answers ==
    {"schedule a meeting tomorrow at 2pm for 30 minutes with a@b.com",
     "\"standup\"", "yes", "no", "1", "7", "add info", "3pm", "13pm",
     "0 minutes"}

Utterances == Openers \cup Answers

\* what is said in a run of selections
Retrying == {"edit", "cancel", "7", "no"}

\* what is said in a run of overlapping calls
Racing == {"schedule a meeting tomorrow at 2pm for 30 minutes with a@b.com", "cancel", "yes",
           "add info"}

Row(title, day, hour, minute, duration, organizer, participants) ==
    [present |-> TRUE, title |-> PyStr(Str(title)), description |-> PyStr(<<>>),
     duration_minutes |-> duration,
     start_time |-> combine(day, hour, minute),
     end_time |-> combine(day, hour, minute) + duration,
     organizer_id |-> organizer, participants |-> participants, status |-> "confirmed"]

InitialStores ==
    {EmptyDict,
     (1 :> Row("sync", Today + 1, 10, 0, 60, 1, <<PyInt(2)>>))
        @@ (2 :> Row("demo", Today + 1, 14, 0, 30, 1, <<>>))}

Action(name, rest) == PyDict(Update([action |-> PyStr(Str(name))], rest))

\* what the Text Completion Service may answer to the prompt awaited at pc
Replies(pc) ==
    CASE pc = "create_extract" ->
            {Fails(FALSE), Text(120, FALSE),
             Json("json", Action("create_meeting",
                    [title |-> PyStr(Str("standup")),
                     start_time |-> isoformat(combine(Today + 1, 14, 0)),
                     duration_minutes |-> PyInt(30),
                     participants |-> PyList(<<PyStr(Str("a@b.com"))>>)])),
             Json("embedded", Action("create_meeting",
                    [title |-> PyNone,
                     start_time |-> PyStr(Str("3pm")),
                     duration_minutes |-> PyInt(30),
                     participants |-> PyList(<<PyStr(Str("a@b.com"))>>)])),
             Json("json", Action("suggest_alternative",
                    [title |-> PyStr(Str("standup")),
                     start_time |-> isoformat(combine(Today + 1, 16, 0)),
                     duration_minutes |-> PyInt(30),
                     participants |-> PyList(<<PyStr(Str("a@b.com"))>>)]))}
      [] pc = "update_extract" ->
            {Fails(FALSE), Text(120, FALSE),
             Json("json", Action("update_meeting",
                    [target_title |-> PyStr(Str("sync")),
                     updates |-> PyDict([duration_minutes |-> PyInt(45)])])),
             Json("json", Action("update_meeting",
                    [target_title |-> PyStr(Str("sync")), updates |-> PyNone]))}
      [] pc = "delete_extract" ->
            {Fails(FALSE), Text(120, FALSE),
             Json("json", Action("delete_meeting",
                    [target_title |-> PyStr(Str("sync")), start_time |-> PyNone])),
             Json("literal", Action("clarify_delete", EmptyDict))}
      [] pc = "add_info" ->
            {Fails(FALSE), Text(120, FALSE),
             Json("json", PyDict([title |-> PyStr(Str("standup")),
                                  duration_minutes |-> PyInt(30)])),
             Json("json", PyDict([title |-> PyStr(Str("standup")),
                                  start_time |-> isoformat(combine(Today + 1, 16, 0)),
                                  duration_minutes |-> PyInt(30)])),
             Json("json", PyDict([title |-> PyStr(Str("standup")),
                                  start_time |-> isoformat(combine(Today + 1, 16, 0)),
                                  duration_minutes |-> PyInt(30),
                                  participants |-> PyList(<<PyStr(Str("c@d.com"))>>)]))}
      [] pc = "enhance" ->
            {Fails(FALSE), Fails(TRUE), Text(120, FALSE),
             Text(10, FALSE), Text(11, FALSE), Text(499, FALSE), Text(500, FALSE)}
      [] pc = "general" ->
            {Fails(FALSE), Fails(TRUE), Text(120, FALSE), Text(0, FALSE)}
      [] OTHER ->
            {Fails(FALSE), Text(120, FALSE), Text(0, FALSE)}

-----------------------------------------------------------------------------
(* The state machine *)

\* no call of the scheduling routes yet
NoPlan == [op |-> "none"]

Init ==
    /\ pending_actions = EmptyDict
    /\ conversation_history = EmptyDict
    /\ meetings \in InitialStores
    /\ next_id = Cardinality(DOMAIN meetings) + 1
    /\ frames = [s \in Slots |-> IdleFrame]
    /\ plan = NoPlan

\* the number of messages user_id has sent
TurnsOf(user_id) ==
    IF user_id \in DOMAIN conversation_history
    THEN Cardinality({n \in 1..Len(conversation_history[user_id]) :
                         conversation_history[user_id][n].role = "user"})
    ELSE 0

RECURSIVE SumTurns(_)
SumTurns(us) ==
    IF us = {} THEN 0
    ELSE LET u == CHOOSE x \in us : TRUE IN TurnsOf(u) + SumTurns(us \ {u})

World(frame) ==
    [pa |-> pending_actions, db |-> meetings, nid |-> next_id,
     calls |-> frame.calls, raised |-> frame.raised]

\* a version of the call that takes no note of the calls suspended at its start
accept_alone(slot, user_id, message) ==
    /\ ~InFlight(slot)
    /\ \E up \in BOOLEAN :
          LET frame == [IdleFrame EXCEPT !.user = user_id, !.message = message,
                                         !.pa0 = pending_actions, !.db0 = meetings,
                                         !.call = SumTurns(Users) + 1]
          IN  Proceed(slot, frame, Dispatch(World(frame), up, user_id, message),
                      Appended(conversation_history, user_id, "user",
                               [tpl |-> "user", text |-> message]))

\* process_message(user_id, message) is called in slot and runs to its
\* first await or to its end; up: whether the database answers
Accept(slot, user_id, message) ==
    /\ ~InFlight(slot)
    /\ \E up \in BOOLEAN :
          LET frame == [IdleFrame EXCEPT !.user = user_id, !.message = message,
                                         !.pa0 = pending_actions, !.db0 = meetings,
                                         !.call = SumTurns(Users) + 1,
                                         !.during = {frames[s].call : s \in {x \in Slots : InFlight(x)}}]
          IN  Proceed(slot, frame, Dispatch(World(frame), up, user_id, message),
                      Appended(conversation_history, user_id, "user",
                               [tpl |-> "user", text |-> message]))

\* a message arrives while no other is being processed
Receive(user_id, message) ==
    /\ \A s \in Slots : ~InFlight(s)
    /\ SumTurns(Users) < MaxTurns
    /\ message \in (IF user_id \in DOMAIN pending_actions THEN Answers ELSE Openers)
    /\ Accept(1, user_id, message)

\* the Text Completion Service answers r (or fails) to a handler's prompt
\* and the handler runs to its next await or to its end
HandlerResumes(slot, r) ==
    /\ InFlight(slot)
    /\ frames[slot].pc # "enhance"
    /\ r \in Replies(frames[slot].pc)
    /\ \E up \in BOOLEAN :
          LET frame == [frames[slot] EXCEPT !.llm = Append(@, ~r.raises)]
          IN  Proceed(slot, frame, Resume(World(frame), up, frame, r), conversation_history)

\* the Text Completion Service answers r (or fails) to the rephrasing
\* prompt and process_message returns
EnhanceReturns(slot, r) ==
    /\ frames[slot].pc = "enhance"
    /\ r \in Replies("enhance")
    /\ LET response == _enhance_response_with_llm(frames[slot].resp, r)
       IN  /\ frames' = [frames EXCEPT ![slot] =
                            [@ EXCEPT !.pc = "done", !.llm = Append(@, ~r.raises),
                                      !.enh = <<r>>, !.resp = response]]
           /\ conversation_history' =
                  Appended(conversation_history, frames[slot].user, "assistant",
                           response.message)
    /\ UNCHANGED <<pending_actions, meetings, next_id, plan>>

AllReplies == UNION {Replies(pc) : pc \in AwaitPcs}

Next ==
    \/ \E user_id \in Users, message \in Utterances : Receive(user_id, message)
    \/ \E slot \in Slots, r \in AllReplies : HandlerResumes(slot, r)
    \/ \E slot \in Slots, r \in AllReplies : EnhanceReturns(slot, r)

Spec == Init /\ [][Next]_vars

-----------------------------------------------------------------------------
(* Runs of selections: the calls come one at a time, and what is said is   *)
(* a request to edit or cancel, or an answer that selects no meeting.      *)

Retries(user_id, message) ==
    /\ \A s \in Slots : ~InFlight(s)
    /\ SumTurns(Users) < MaxRetryTurns
    /\ message \in (IF user_id \in DOMAIN pending_actions THEN {"7", "no"} ELSE {"edit", "cancel"})
    /\ Accept(1, user_id, message)

NextRetry ==
    \/ \E user_id \in Users, message \in Retrying : Retries(user_id, message)
    \/ \E slot \in Slots, r \in AllReplies : HandlerResumes(slot, r)
    \/ \E slot \in Slots, r \in AllReplies : EnhanceReturns(slot, r)

SpecRetry == Init /\ [][NextRetry]_vars

-----------------------------------------------------------------------------
(* Overlapping calls: process_message is a coroutine of one agent object,  *)
(* and a second call may start while the first is suspended at an await.   *)

\* a call starts in the first free slot, whether or not another call is
\* suspended: an answer when a question is pending, a new request otherwise,
\* or a second "yes" while the call of the first is still suspended
Arrives(slot, user_id, message) ==
    /\ SumTurns(Users) < MaxRaceTurns
    /\ slot = SetMin({s \in Slots : ~InFlight(s)} \cup {SetMax(Slots)})
    /\ IF user_id \in DOMAIN pending_actions
       THEN message \in {"yes", "add info"}
       ELSE \/ message \in Racing \ {"yes", "add info"}
            \/ message = "yes" /\ \E s \in Slots : InFlight(s)
    /\ Accept(slot, user_id, message)

\* what the Text Completion Service answers to the rephrasing prompt in a
\* run of overlapping calls
RaceRephrasings == {Fails(FALSE), Text(120, FALSE)}

NextRace ==
    \/ \E slot \in Slots, message \in Racing : Arrives(slot, 1, message)
    \/ \E slot \in Slots, r \in AllReplies : HandlerResumes(slot, r)
    \/ \E slot \in Slots, r \in RaceRephrasings : EnhanceReturns(slot, r)

SpecRace == Init /\ [][NextRace]_vars

-----------------------------------------------------------------------------
(* The scheduling routes: calls of the Conflict Detector and of the        *)
(* Scheduling Engine on the meetings table.  plan keeps the last call:     *)
(* its arguments, the table it found (db0), whether the database answered  *)
(* (up) and what it returned.                                              *)

Cancelled(row) == [row EXCEPT !.status = "cancelled"]

\* the tables the routes may find: day 0 is a Monday
PlannerStores ==
    {EmptyDict,
     (1 :> Row("sync", 0, 10, 0, 60, 1, <<PyInt(1), PyInt(2)>>))
        @@ (2 :> Cancelled(Row("demo", 0, 10, 0, 60, 2, <<>>)))
        @@ (3 :> Row("review", 0, 14, 0, 60, 1, <<PyInt(2)>>)),
     (1 :> Row("sync", 0, 10, 0, 60, 1, <<PyInt(2)>>))
        @@ (2 :> Row("offsite", 1, 0, 0, 7 * 1440, 2, <<>>))}

\* the intervals asked about: [start, end) on day 0
Probes ==
    {<<combine(0, 10, 30), combine(0, 11, 30)>>,
     <<combine(0, 11, 0), combine(0, 12, 0)>>,
     <<combine(0, 9, 0), combine(0, 10, 30)>>}

\* the date ranges asked about: <<start_date, end_date>>, dates at midnight
Ranges ==
    {<<combine(0, 0, 0), combine(0, 0, 0)>>,
     <<combine(0, 0, 0), combine(1, 0, 0)>>,
     <<combine(4, 0, 0), combine(5, 0, 0)>>,
     <<combine(5, 0, 0), combine(7, 0, 0)>>,
     <<combine(6, 0, 0), combine(7, 0, 0)>>,
     <<combine(1, 0, 0), combine(0, 0, 0)>>,
     <<combine(0, 15, 0), combine(1, 10, 0)>>,
     <<combine(0, 8, 0), combine(1, 12, 0)>>}

\* the durations asked about, in minutes
Durations == {60, 90}

\* the participants asked about
Parties == {<<1>>, <<2>>, <<1, 2>>}

InitPlanner ==
    /\ pending_actions = EmptyDict
    /\ conversation_history = EmptyDict
    /\ meetings \in PlannerStores
    /\ next_id = Cardinality(DOMAIN meetings) + 1
    /\ frames = [s \in Slots |-> IdleFrame]
    /\ plan = NoPlan

Called(op, user_id, participants, start, end, duration, up, ranked, result) ==
    [op |-> op, user |-> user_id, participants |-> participants,
     start |-> start, end |-> end, duration |-> duration, db0 |-> meetings, up |-> up,
     ranked |-> ranked, result |-> result]

\* check_meeting_conflicts(user_id, start_time, end_time) is called
CheckConflicts(user_id, probe) ==
    /\ \E up \in BOOLEAN :
          plan' = Called("conflicts", user_id, <<>>, probe[1], probe[2], 0, up, <<>>,
                         check_meeting_conflicts(meetings, up, user_id,
                                                 PyDatetime(probe[1]), PyDatetime(probe[2])))
    /\ UNCHANGED <<pending_actions, conversation_history, meetings, next_id, frames>>

\* the route find_optimal_meeting_time: a meeting of some duration in a
\* date range
FindOptimal(participant_ids, duration_minutes, range) ==
    /\ \E up \in BOOLEAN :
          LET Found(optimal) ==
                  Called("optimal", 0, participant_ids, range[1], range[2], duration_minutes, up,
                         optimal.ranked, optimal.result)
          IN  plan' = Found(find_optimal_meeting_time(meetings, up, participant_ids, duration_minutes,
                                                      range[1], range[2]))
    /\ UNCHANGED <<pending_actions, conversation_history, meetings, next_id, frames>>

\* the route auto_reschedule_conflicts: meeting_data goes to the service as
\* it came (text: start_time and end_time are the ISO strings of the
\* request), or with datetimes as the service's loop expects
AutoReschedule(participants, probe, text) ==
    /\ \E up \in BOOLEAN :
          LET Time(t) == IF text THEN isoformat(t) ELSE PyDatetime(t)
              Done(out) ==
                  /\ meetings' = out.w.db
                  /\ plan' = Called(IF text THEN "reschedule_text" ELSE "reschedule", 0,
                                    participants, probe[1], probe[2], 0, up, <<>>,
                                    out.rescheduled)
          IN  Done(auto_reschedule_conflicting_meetings(
                       [pa |-> pending_actions, db |-> meetings, nid |-> next_id,
                        calls |-> <<>>, raised |-> FALSE],
                       up,
                       [start_time |-> Time(probe[1]), end_time |-> Time(probe[2]),
                        participants |-> participants]))
    /\ UNCHANGED <<pending_actions, conversation_history, next_id, frames>>

NextPlanner ==
    \/ \E user_id \in Users, probe \in Probes : CheckConflicts(user_id, probe)
    \/ \E participant_ids \in Parties, duration_minutes \in Durations, range \in Ranges :
          FindOptimal(participant_ids, duration_minutes, range)
    \/ \E participants \in Parties, probe \in Probes, text \in BOOLEAN :
          AutoReschedule(participants, probe, text)

SpecPlanner == InitPlanner /\ [][NextPlanner]_vars

-----------------------------------------------------------------------------
(* Ways out: after some turns of requests and answers, a user who has a    *)
(* pending action says what leads out of it, one call at a time, until no  *)
(* action is pending.                                                      *)

\* the number of turns of requests and answers before the users turn back
FreeTurns == 2

\* what is said before the users turn back
Requests ==
    {"schedule a meeting tomorrow at 2pm for 30 minutes with a@b.com",
     "book a room", "cancel", "edit", "cancel my meetings"}

Choices == {"1", "add info"}

\* what a user says to get out of a pending action: "no" to a confirmation,
\* the first meeting to a selection, and to a request for details a time
\* that the extractors cannot read
WayOut(action) ==
    CASE action \in {"confirm_create_meeting", "confirm_delete_meeting",
                     "confirm_delete", "confirm_delete_all"} -> "no"
      [] action \in {"update_meeting", "delete_meeting"} -> "1"
      [] OTHER -> "13pm"

\* the rephrasings in these runs
LeaveRephrasings == {Fails(FALSE), Text(120, FALSE)}

\* a request or an answer, before the users turn back
Asks(user_id, message) ==
    /\ \A s \in Slots : ~InFlight(s)
    /\ SumTurns(Users) < FreeTurns
    /\ message \in (IF user_id \in DOMAIN pending_actions THEN Choices ELSE Requests)
    /\ Accept(1, user_id, message)

\* a user with a pending action says what leads out of it
Leaves(user_id) ==
    /\ \A s \in Slots : ~InFlight(s)
    /\ SumTurns(Users) >= FreeTurns
    /\ user_id \in DOMAIN pending_actions
    /\ Accept(1, user_id, WayOut(pending_actions[user_id].action))

NextLeave ==
    \/ \E user_id \in Users, message \in Requests \cup Choices : Asks(user_id, message)
    \/ \E user_id \in Users : Leaves(user_id)
    \/ \E slot \in Slots, r \in AllReplies : HandlerResumes(slot, r)
    \/ \E slot \in Slots, r \in LeaveRephrasings : EnhanceReturns(slot, r)

SpecLeave == Init /\ [][NextLeave]_vars

-----------------------------------------------------------------------------
(* Cancelling everything: _handle_intent is entered with the intent        *)
(* delete_all_meetings, as it is for a message that _analyze_intent         *)
(* classifies so, and the users then answer and cancel single meetings,    *)
(* one call at a time.                                                     *)

MaxAllTurns == 4

\* what is said in these runs
Cancelling == {"delete all", "cancel", "yes", "no"}

AllRephrasings == {Fails(FALSE), Text(120, FALSE)}

\* process_message with the intent delete_all_meetings for the message
AsksForAll(user_id, message) ==
    /\ \A s \in Slots : ~InFlight(s)
    /\ SumTurns(Users) < MaxAllTurns
    /\ user_id \notin DOMAIN pending_actions
    /\ message = "delete all"
    /\ \E up \in BOOLEAN :
          LET frame == [IdleFrame EXCEPT !.user = user_id, !.message = message,
                                         !.pa0 = pending_actions, !.db0 = meetings,
                                         !.call = SumTurns(Users) + 1]
          IN  Proceed(1, frame,
                      _handle_intent(World(frame), up, user_id, Str(message),
                                     "delete_all_meetings"),
                      Appended(conversation_history, user_id, "user",
                               [tpl |-> "user", text |-> message]))

\* an answer to what is pending, or a request to cancel a meeting
Says(user_id, message) ==
    /\ \A s \in Slots : ~InFlight(s)
    /\ SumTurns(Users) < MaxAllTurns
    /\ message \in (IF user_id \in DOMAIN pending_actions THEN {"yes", "no"} ELSE {"cancel"})
    /\ Accept(1, user_id, message)

NextAll ==
    \/ \E user_id \in Users, message \in Cancelling : AsksForAll(user_id, message)
    \/ \E user_id \in Users, message \in Cancelling : Says(user_id, message)
    \/ \E slot \in Slots, r \in AllReplies : HandlerResumes(slot, r)
    \/ \E slot \in Slots, r \in AllRephrasings : EnhanceReturns(slot, r)

SpecAll == Init /\ [][NextAll]_vars

-----------------------------------------------------------------------------
(* Reading the time of day: the two extractors are applied to the texts of *)
(* times of day, and plan keeps the text and what was read.                *)

\* the times of day that are written: 12-hour with or without minutes
\* (minute -1: none written), and 24-hour HH:MM
ClockTokens ==
    [kind : {"12h"}, hour : 1..12, minute : {-1, 0, 30}, period : {"am", "pm"}]
        \cup [kind : {"24h"}, hour : 0..23, minute : {0, 30, 59}, period : {""}]

\* n in two digits
TwoDigits(n) == <<DigitChar(n \div 10), DigitChar(n % 10)>>

\* the text of a time of day: "2pm", "2:30pm", "14:30"
Written(token) ==
    IF token.kind = "24h" THEN TwoDigits(token.hour) \o <<":">> \o TwoDigits(token.minute)
    ELSE Decimal(token.hour)
         \o (IF token.minute < 0 THEN <<>> ELSE <<":">> \o TwoDigits(token.minute))
         \o (IF token.period = "am" THEN <<"a", "m">> ELSE <<"p", "m">>)

Read(by, token, raised, found) ==
    [op |-> "clock", by |-> by, token |-> token, raised |-> raised,
     start_time |-> Get(found, "start_time")]

\* _extract_meeting_info(message) on the text of a time of day
ReadsMeetingTime(token) ==
    /\ plan' = Read("_extract_meeting_info", token,
                    _extract_meeting_info(Written(token)).raised,
                    _extract_meeting_info(Written(token)).info)
    /\ UNCHANGED <<pending_actions, conversation_history, meetings, next_id, frames>>

\* _extract_update_info(message) on the text of a time of day
ReadsUpdateTime(token) ==
    /\ plan' = Read("_extract_update_info", token,
                    _extract_update_info(Written(token)).raised,
                    _extract_update_info(Written(token)).updates)
    /\ UNCHANGED <<pending_actions, conversation_history, meetings, next_id, frames>>

NextClock ==
    \/ \E token \in ClockTokens : ReadsMeetingTime(token)
    \/ \E token \in ClockTokens : ReadsUpdateTime(token)

SpecClock == Init /\ [][NextClock]_vars

-----------------------------------------------------------------------------
(* Properties.  A frame whose handler has returned (pc "enhance" or        *)
(* "done") shows one turn: what the call found (pa0, db0), what it did     *)
(* (calls, raised, llm), the handler's reply (hresp) and, once done, the   *)
(* reply returned (resp).  When calls come one at a time, pending_actions  *)
(* and meetings are then the tables as that turn left them.                *)

Handled(s) == frames[s].pc \in {"enhance", "done"}

Returned(s) == frames[s].pc = "done"

\* the turn in slot s found no pending action for its user
FromNoPending(s) == frames[s].user \notin DOMAIN frames[s].pa0

\* the turn in slot s found a pending action of one of these kinds
From(s, actions) ==
    /\ frames[s].user \in DOMAIN frames[s].pa0
    /\ frames[s].pa0[frames[s].user].action \in actions

Found(s) == frames[s].pa0[frames[s].user]

Cleared(s) == frames[s].user \notin DOMAIN pending_actions

Invoked(s, op) == \E n \in 1..Len(frames[s].calls) : frames[s].calls[n].op = op

StoreUntouched(s) == frames[s].calls = <<>> /\ meetings = frames[s].db0

\* the fields of each kind of pending action
VariantFields(action) ==
    CASE action = "create_meeting" ->
            {{"action", "partial_info", "missing_fields"},
             {"action", "partial_info", "missing_fields", "suggested_alternative"}}
      [] action = "confirm_create_meeting" -> {{"action", "meeting_proposal"}}
      [] action \in {"update_meeting", "delete_meeting"} -> {{"action", "available_meetings"}}
      [] action \in {"update_meeting_details", "confirm_delete_meeting", "confirm_delete"} ->
            {{"action", "target_meeting"}}
      [] action = "confirm_delete_all" -> {{"action", "meeting_count"}}
      [] OTHER -> {}

\* C1: pending_actions holds at most one entry per user (it is a table
\* keyed by user id), and every entry is exactly one pending action: it has
\* the fields of its own kind and none left over from the entry it replaced.
C1_OnePendingActionFullyReplaced ==
    /\ DOMAIN pending_actions \subseteq Users
    /\ \A u \in DOMAIN pending_actions :
          DOMAIN pending_actions[u] \in VariantFields(pending_actions[u].action)

\* a selection has replaced the pending list of candidates by the chosen meeting
C1_Witness ==
    \E s \in Slots :
        /\ Handled(s) /\ From(s, {"update_meeting"})
        /\ ~Cleared(s)
        /\ pending_actions[frames[s].user].action = "update_meeting_details"

\* C2: no exception leaves process_message, and every call that has
\* returned carries a boolean success and a message, whatever was said, was
\* pending, the store did and the Text Completion Service answered, calls
\* of one user overlapping included.
C2_ProcessMessageAlwaysReturns ==
    \A s \in Slots :
        /\ frames[s].pc # "escaped"
        /\ Returned(s) => /\ frames[s].resp.success \in BOOLEAN
                          /\ frames[s].resp.message.tpl # ""

\* an exception went past _handle_pending_action and process_message
\* returned its own error reply
C2_Witness ==
    \E s \in Slots : Returned(s) /\ frames[s].raised /\ frames[s].resp = TroubleRightNow

\* C3: a "yes" to the confirmation of deleting meeting X invokes the store's
\* delete exactly once, with the id of X, clears the user's pending action,
\* and the handler's reply names the title of X.
C3_YesDeletesTheConfirmedMeeting ==
    \A s \in Slots :
        Handled(s) /\ From(s, {"confirm_delete_meeting"}) /\ frames[s].message = "yes"
        => /\ frames[s].calls = <<[op |-> "delete", id |-> Found(s).target_meeting]>>
           /\ Cleared(s)
           /\ frames[s].hresp.message =
                  Canned("deleted", <<TitleOf(frames[s].db0, Found(s).target_meeting)>>)

C3_Witness ==
    \E s \in Slots :
        /\ Returned(s) /\ From(s, {"confirm_delete_meeting"}) /\ frames[s].message = "yes"
        /\ ~meetings[Found(s).target_meeting].present
        /\ frames[s].db0[Found(s).target_meeting].present

\* the resolver of the state the turn found succeeds on what was said
ResolverSucceeds(s) ==
    \/ /\ From(s, {"create_meeting"})
       /\ ~_extract_meeting_info(Str(frames[s].message)).raised
       /\ MissingFields(Update(Found(s).partial_info,
                               _extract_meeting_info(Str(frames[s].message)).info)) = <<>>
    \/ /\ From(s, {"update_meeting_details"})
       /\ ~_extract_update_info(Str(frames[s].message)).raised
       /\ DOMAIN _extract_update_info(Str(frames[s].message)).updates # {}
    \/ /\ From(s, {"confirm_create_meeting", "confirm_delete_meeting", "confirm_delete",
                   "confirm_delete_all"})
       /\ frames[s].message = "yes"

\* the store mutation of the state the turn found
MutationOf(s) ==
    CASE From(s, {"create_meeting", "confirm_create_meeting"}) -> "create"
      [] From(s, {"update_meeting_details"}) -> "update"
      [] OTHER -> "delete"

\* C4: in every state with a pending action, when its resolver succeeds
\* (all four required fields non-empty after merging what was said, a
\* non-empty update, or "yes" to a confirmation) the store mutation of that
\* state is invoked in the same turn and the pending action is cleared.
C4_ResolverSuccessExecutesMutation ==
    \A s \in Slots :
        Handled(s) /\ ResolverSucceeds(s) => Invoked(s, MutationOf(s)) /\ Cleared(s)

\* C5: in a confirmation state, "no" clears the user's pending action,
\* invokes no create, update or delete, and leaves the meetings as they were.
C5_NoClearsWithoutMutation ==
    \A s \in Slots :
        /\ Handled(s)
        /\ From(s, {"confirm_create_meeting", "confirm_delete_meeting", "confirm_delete_all"})
        /\ frames[s].message = "no"
        => Cleared(s) /\ StoreUntouched(s)

C5_Witness ==
    \E s \in Slots :
        /\ Returned(s) /\ From(s, {"confirm_delete_meeting"}) /\ frames[s].message = "no"
        /\ Cleared(s)
        /\ meetings[Found(s).target_meeting].present

\* what selects none of at most six candidates: a number past the list, a
\* word that is in no title
SelectsNone == {"7", "no"}

\* C6: in the two selection states, an answer that selects no candidate
\* leaves the pending action as it was (same kind, same candidates), invokes
\* no store mutation, and the handler asks again; the next answer finds the
\* same state, so this repeats.
C6_FailedSelectionKeepsPending ==
    \A s \in Slots :
        /\ Handled(s) /\ From(s, {"update_meeting", "delete_meeting"})
        /\ frames[s].message \in SelectsNone
        => /\ ~Cleared(s)
           /\ pending_actions[frames[s].user] = Found(s)
           /\ StoreUntouched(s)
           /\ frames[s].hresp.success
           /\ frames[s].hresp.message.tpl \in
                  {"number_matches_no_meeting", "could_not_find_meeting"}

\* the third message of a user is a second failed selection in a row
C6_Witness ==
    \E s \in Slots :
        /\ Returned(s) /\ From(s, {"update_meeting", "delete_meeting"})
        /\ frames[s].message = "7"
        /\ TurnsOf(frames[s].user) = 3
        /\ pending_actions[frames[s].user] = Found(s)

\* the replies of the except clauses
GenericErrors ==
    {"trouble_lets_start_over", "trouble_understanding_details", "trouble_try_again",
     "trouble_right_now"}

\* the history of the user ends with what was said and the reply returned
TurnRecorded(s) ==
    LET h == conversation_history[frames[s].user]
    IN  /\ Len(h) >= 2
        /\ h[Len(h) - 1] = [role |-> "user",
                            content |-> [tpl |-> "user", text |-> frames[s].message]]
        /\ h[Len(h)] = [role |-> "assistant", content |-> frames[s].resp.message]

\* C7: when an exception reaches an except clause of a handler during a
\* turn (calls coming one at a time), the user has no pending action
\* afterwards, the result has success false and a generic error message, and
\* both what was said and the error reply are in the user's history.
C7_RaisedTurnClearsAndRecords ==
    \A s \in Slots :
        Returned(s) /\ frames[s].raised
        => /\ Cleared(s)
           /\ ~frames[s].resp.success
           /\ frames[s].resp.message.tpl \in GenericErrors
           /\ TurnRecorded(s)

\* the handler of a pending action raised and the entry is gone
C7_Witness ==
    \E s \in Slots :
        /\ Returned(s) /\ frames[s].raised /\ ~FromNoPending(s)
        /\ Cleared(s) /\ TurnRecorded(s)

\* the example of a request without a title
UntitledRequest == "schedule a meeting tomorrow at 2pm for 30 minutes with a@b.com"

\* C8: from no pending action, the request "schedule a meeting tomorrow at
\* 2pm for 30 minutes with a@b.com" leaves the user with a pending
\* create_meeting whose missing_fields is exactly ["meeting title"]; and a
\* pending create_meeting stored by a request always lists exactly the
\* required fields that are empty in its partial_info.
C8_UntitledRequestAsksForTitle ==
    \A s \in Slots :
        Handled(s) /\ FromNoPending(s)
        => /\ frames[s].message = UntitledRequest
              => /\ ~Cleared(s)
                 /\ pending_actions[frames[s].user].action = "create_meeting"
                 /\ pending_actions[frames[s].user].missing_fields = <<"meeting title">>
           /\ ~Cleared(s) /\ pending_actions[frames[s].user].action = "create_meeting"
              => pending_actions[frames[s].user].missing_fields =
                     MissingFields(pending_actions[frames[s].user].partial_info)

\* the user of the turn had no meeting in the table
NoMeetings(s) ==
    \A id \in DOMAIN frames[s].db0 :
        ~(frames[s].db0[id].present /\ IsUser(frames[s].db0[id], frames[s].user))

\* C9: "show my meetings" from no pending action sets no pending action and
\* invokes no store mutation; for a user without meetings the handler's
\* reply offers to schedule one and the result has success true.
C9_ViewChangesNothing ==
    \A s \in Slots :
        Handled(s) /\ FromNoPending(s) /\ frames[s].message = "show my meetings"
        => /\ pending_actions = frames[s].pa0
           /\ StoreUntouched(s)
           /\ NoMeetings(s)
              => /\ frames[s].hresp = Resp(TRUE, Canned("view_none_offer_schedule", <<>>))
                 /\ frames[s].resp.success

C9_Witness ==
    \E s \in Slots :
        /\ Returned(s) /\ FromNoPending(s) /\ frames[s].message = "show my meetings"
        /\ NoMeetings(s)
        /\ frames[s].resp.success

\* every call of the Text Completion Service in the turn failed
EveryCallFailed(s) == \A n \in 1..Len(frames[s].llm) : ~frames[s].llm[n]

\* C10: a turn in which every call of the Text Completion Service fails
\* still returns a message that is not empty: a canned text, never the
\* service's words and never an exception.
C10_FailedServiceStillAnswers ==
    \A s \in Slots :
        /\ frames[s].pc # "escaped"
        /\ Returned(s) /\ EveryCallFailed(s)
           => /\ ~IsEmptyMessage(frames[s].resp.message)
              /\ frames[s].resp.message.tpl \notin {"", "llm"}

\* a meeting was created and announced by the fallback text, the service
\* having failed at the success prompt and at the rephrasing prompt
C10_Witness ==
    \E s \in Slots :
        /\ Returned(s) /\ EveryCallFailed(s)
        /\ frames[s].llm = <<FALSE, FALSE>>
        /\ frames[s].resp.message.tpl = "scheduled"

-----------------------------------------------------------------------------
(* Properties of the Conflict Detector and the Scheduling Engine.  plan    *)
(* shows one call: its arguments, the table it found and its result.       *)

\* the user is the organizer of the row or is in its list of participants
TakesPart(row, user_id) ==
    \/ row.organizer_id = user_id
    \/ \E n \in 1..Len(row.participants) : row.participants[n] = PyInt(user_id)

\* the half-open intervals [start, end) of the row and of the probe overlap
Overlaps(row, start, end) == row.start_time < end /\ row.end_time > start

\* the rows of db that are in the user's way in [start, end)
ConflictsOf(db, user_id, start, end) ==
    {id \in DOMAIN db :
        /\ db[id].present
        /\ TakesPart(db[id], user_id)
        /\ db[id].status \in {"proposed", "confirmed"}
        /\ Overlaps(db[id], start, end)}

\* C11: with the database answering, check_meeting_conflicts(user, s, e)
\* returns exactly the meetings in which the user is organizer or
\* participant, whose status is proposed or confirmed, and with
\* start < e and end > s.
C11_ConflictsAreExactlyTheOverlapping ==
    plan.op = "conflicts" /\ plan.up
    => {plan.result[n] : n \in 1..Len(plan.result)}
           = ConflictsOf(plan.db0, plan.user, plan.start, plan.end)

\* the hourly slots of the days of a date range: 9:00 to 16:00
HourlySlots(start_date, end_date) ==
    {combine(d, h, 0) : d \in (start_date \div 1440)..(end_date \div 1440), h \in 9..16}

\* the slots of the range of the call in which no participant has a conflict
FeasibleSlots ==
    {t \in HourlySlots(plan.start, plan.end) :
        \A n \in 1..Len(plan.participants) :
            ConflictsOf(plan.db0, plan.participants[n], t, t + plan.duration) = {}}

\* the score of a slot, doubled: +3 from 9 to 11, +2 from 14 to 16, -1 from
\* 12 to 13, +2 on a weekday, +0.5 for each participant
SlotScore(t, participant_count) ==
    (CASE HourOf(t) \in 9..11 -> 6
       [] HourOf(t) \in 14..16 -> 4
       [] HourOf(t) \in 12..13 -> -2
       [] OTHER -> 0)
    + (IF (t \div 1440) % 7 \in 0..4 THEN 4 ELSE 0)
    + participant_count

\* C12: with the database answering, find_optimal_meeting_time returns
\* none exactly when the date range holds no feasible hourly slot, and
\* otherwise a slot that no feasible slot of the range outscores.
C12_OptimalIsBestOfTheRange ==
    plan.op = "optimal" /\ plan.up
    => /\ plan.result = PyNone <=> FeasibleSlots = {}
       /\ plan.result # PyNone
          => \A t \in FeasibleSlots :
                SlotScore(t, Len(plan.participants))
                    <= SlotScore(fromisoformat(plan.result.v.start_time), Len(plan.participants))

\* the half about none: find_optimal_meeting_time returns none exactly when the date range holds no hourly slot that the Conflict
\* Detector finds free for every participant.
NoneOnlyWithoutFreeSlot ==
    plan.op = "optimal"
    => (plan.result = PyNone
        <=> \A t \in HourlySlots(plan.start, plan.end) :
               ~AllAvailable(plan.db0, plan.up, plan.participants, t, t + plan.duration))

\* the meetings in the way of the new meeting of the call, for some participant
ConflictsWithNew ==
    UNION {ConflictsOf(plan.db0, plan.participants[n], plan.start, plan.end) :
               n \in 1..Len(plan.participants)}

\* the meetings the result of the call reports
Reported == {plan.result[n].meeting_id : n \in 1..Len(plan.result)}

\* C13: with the database answering, every meeting that conflicts with the
\* new meeting for some participant is in the result of
\* auto_reschedule_conflicting_meetings (the result lists rescheduled
\* meetings and has no other place for a conflict).
C13_NoConflictDropped ==
    plan.op \in {"reschedule", "reschedule_text"} /\ plan.up
    => ConflictsWithNew \subseteq Reported

\* called with datetimes, a conflicting meeting whose participants are free
\* in the week after is moved and reported
SomeConflictRescheduled ==
    /\ plan.op = "reschedule" /\ plan.up
    /\ \E id \in ConflictsWithNew \cap Reported :
          meetings[id].start_time >= plan.start + 1440

\* called with the strings of the request, the service reports nothing
TextFindsNothing == plan.op = "reschedule_text" => plan.result = <<>>

\* the fields from which the turn in slot s creates a meeting: the proposal
\* the user confirms, or the details gathered so far with those just given
Intended(s) ==
    IF From(s, {"confirm_create_meeting"}) THEN Found(s).meeting_proposal
    ELSE Update(Found(s).partial_info, _extract_meeting_info(Str(frames[s].message)).info)

\* the meetings the turn in slot s created
Created(s) ==
    {frames[s].calls[n].id : n \in {i \in 1..Len(frames[s].calls) :
                                        frames[s].calls[i].op = "create"}} \ {0}

\* the minute an ISO string denotes
Denotes(iso) == (iso.v.d * 24 + iso.v.h) * 60 + iso.v.mi

\* the list of the user's meetings holds row id with this title, start and duration
Lists(user_id, id, title, start, duration) ==
    LET listing == get_user_meetings(meetings, TRUE, user_id)
    IN  \E n \in 1..Len(listing) :
            /\ listing[n] = id
            /\ meetings[id].title = title
            /\ meetings[id].start_time = start
            /\ meetings[id].end_time = start + duration

\* C14: a meeting created through the dialogue with title T, start S and
\* duration D is in the list of its organizer's meetings with title T,
\* start S and end S + D.
C14_CreatedMeetingReadsBack ==
    \A s \in Slots :
        Handled(s) /\ From(s, {"create_meeting", "confirm_create_meeting"})
        => \A id \in Created(s) :
               Lists(frames[s].user, id, Get(Intended(s), "title"),
                     Denotes(Get(Intended(s), "start_time")),
                     Get(Intended(s), "duration_minutes").v)

\* a confirmed proposal was created and is listed
C14_Witness ==
    \E s \in Slots :
        /\ Returned(s) /\ From(s, {"confirm_create_meeting"}) /\ frames[s].message = "yes"
        /\ Created(s) # {}
        /\ \A id \in Created(s) :
               /\ meetings[id].present
               /\ meetings[id].organizer_id = frames[s].user
               /\ meetings[id].end_time > meetings[id].start_time

\* the turn in slot s got a text of L characters in answer to its
\* rephrasing prompt
Rephrased(s, L) ==
    /\ Returned(s) /\ frames[s].enh # <<>>
    /\ ~frames[s].enh[1].raises
    /\ frames[s].enh[1].content.len = L

\* the reply returned is the rephrased text
TookRephrasing(s) == frames[s].resp.message = LlmText(frames[s].enh[1].content)

\* the lengths of the texts the service answers with
Lengths == {r.content.len : r \in AllReplies}

\* C15 as stated: the rephrased text of length L replaces the original
\* message if and only if 10 <= L <= 500, and otherwise the original
\* message is returned.
C15_RephrasingTakenWithinInclusiveBounds ==
    \A s \in Slots, L \in Lengths :
        Rephrased(s, L)
        => IF 10 <= L /\ L <= 500 THEN TookRephrasing(s)
           ELSE frames[s].resp = frames[s].hresp

\* C15: the rephrased text of length L replaces the original message if
\* and only if 10 < L < 500 (a text of exactly 10 or exactly 500 characters
\* is not taken), and otherwise the original message is returned.
C15_RephrasingTakenWithinStrictBounds ==
    \A s \in Slots, L \in Lengths :
        Rephrased(s, L)
        => IF 10 < L /\ L < 500 THEN TookRephrasing(s)
           ELSE frames[s].resp = frames[s].hresp

\* a rephrased text of exactly 500 characters was not taken
C15_Witness ==
    \E s \in Slots :
        /\ Rephrased(s, 500)
        /\ frames[s].message = "show my meetings"
        /\ frames[s].resp = frames[s].hresp /\ ~TookRephrasing(s)

\* the meeting the pending action of the turn in slot s is about
Target(s) == Found(s).target_meeting

\* the store deleted the target in this turn
DeleteApplied(s) ==
    frames[s].db0[Target(s)].present /\ ~meetings[Target(s)].present

\* the store wrote what was said to the target in this turn
UpdateApplied(s) ==
    LET updates == _extract_update_info(Str(frames[s].message)).updates
    IN  /\ Invoked(s, "update")
        /\ meetings[Target(s)].present
        /\ "start_time" \in DOMAIN updates
           => meetings[Target(s)].start_time = Denotes(updates.start_time)

\* C16: a reply with success true that says the meeting was updated or
\* deleted is returned only when the store applied the update or the
\* deletion in that turn; when the store fails or the meeting is gone, the
\* result has success false.
C16_SuccessOnlyIfStoreApplied ==
    \A s \in Slots :
        Handled(s) /\ frames[s].hresp.success
        => /\ From(s, {"update_meeting_details"}) /\ frames[s].hresp.message.tpl = "updated"
              => UpdateApplied(s)
           /\ /\ From(s, {"confirm_delete_meeting", "confirm_delete"})
              /\ frames[s].hresp.message.tpl \in {"deleted", "cancelled"}
              => DeleteApplied(s)
           /\ From(s, {"confirm_delete_all"}) /\ frames[s].hresp.message.tpl = "cancelled_all"
              => NoMeetings(s) \/ meetings # frames[s].db0

\* the update half: a reply saying the meeting was updated is returned only
\* when the store wrote the update
UpdatedOnlyIfApplied ==
    \A s \in Slots :
        /\ Handled(s) /\ frames[s].hresp.success
        /\ From(s, {"update_meeting_details"}) /\ frames[s].hresp.message.tpl = "updated"
        => UpdateApplied(s)

\* the turn in slot s ended in the except clause of _handle_pending_action,
\* which deleted the pending action and what it had gathered
DiscardedByException(s) ==
    /\ frames[s].raised /\ Cleared(s)
    /\ frames[s].hresp = Resp(FALSE, Canned("trouble_lets_start_over", <<>>))

\* C17: _extract_meeting_info returns a field map for every utterance, a
\* time token such as "14:30" or "13pm" included, so no utterance received
\* while a create_meeting action is pending has the gathered partial info
\* discarded through the exception path.
C17_ExtractorNeverDiscardsPartialInfo ==
    \A s \in Slots :
        Handled(s) /\ From(s, {"create_meeting"})
        => /\ ~_extract_meeting_info(Str(frames[s].message)).raised
           /\ ~DiscardedByException(s)

\* the keyword rules in their priority order; a rule matches an utterance
\* when a word of any occurs in it and, where also is not empty, a word of
\* also occurs in it too
IntentRules ==
    <<[intent |-> "view_meetings",
       any |-> {"show", "view", "see", "what", "meetings", "schedule", "calendar"},
       also |-> {"my", "have", "scheduled"}],
      [intent |-> "create_meeting",
       any |-> {"schedule", "create", "set up", "book", "arrange", "meeting"},
       also |-> {"new", "a", "with"}],
      [intent |-> "update_meeting",
       any |-> {"change", "update", "modify", "move", "reschedule", "edit"}, also |-> {}],
      [intent |-> "delete_meeting",
       any |-> {"cancel", "delete", "remove", "clear"}, also |-> {}],
      [intent |-> "delete_all_meetings",
       any |-> {"all", "everything", "clear all"}, also |-> {"cancel", "delete", "remove"}]>>

RuleMatches(rule, message) ==
    /\ AnyIn(lower(message), rule.any)
    /\ rule.also = {} \/ AnyIn(lower(message), rule.also)

\* the intent of the first rule that matches, "conversation" when none does
FirstRuleIntent(message) ==
    LET hits == {n \in 1..Len(IntentRules) : RuleMatches(IntentRules[n], message)}
    IN  IF hits = {} THEN "conversation" ELSE IntentRules[SetMin(hits)].intent

\* the turn in slot s found nothing pending and its handler has not yet
\* heard from the Text Completion Service
FreshTurn(s) ==
    frames[s].pc \notin {"idle", "escaped"} /\ FromNoPending(s) /\ frames[s].llm = <<>>

ViewReplies == {"view_none_offer_schedule", "view_one", "view_many"}

\* C18: the intent of an utterance is the intent of the first of the rules
\* view, create, update, delete, delete_all that matches it, and converse
\* when none matches; the turn goes to the handler of that intent, so an
\* utterance matching the view rule and a later rule is answered as a view.
C18_FirstMatchingRuleWins ==
    \A s \in Slots :
        FreshTurn(s)
        => LET intent == FirstRuleIntent(Str(frames[s].message))
           IN  /\ _analyze_intent(Str(frames[s].message)) = intent
               /\ intent = "view_meetings"
                  => Handled(s) /\ frames[s].hresp.message.tpl \in ViewReplies
               /\ intent = "create_meeting" => frames[s].pc = "create_extract"
               /\ intent = "update_meeting" => frames[s].pc = "update_extract"
               /\ intent = "delete_meeting" => frames[s].pc = "delete_extract"
               /\ intent = "conversation"
                  => /\ frames[s].pc = "general" \/ Handled(s)
                     /\ Handled(s) => frames[s].hresp.message.tpl \notin ViewReplies

\* "cancel my meetings" matches the view rule and the delete rule, and was
\* answered with the list of meetings
C18_Witness ==
    \E s \in Slots :
        /\ FreshTurn(s) /\ Handled(s)
        /\ frames[s].message = "cancel my meetings"
        /\ RuleMatches(IntentRules[1], Str(frames[s].message))
        /\ RuleMatches(IntentRules[4], Str(frames[s].message))
        /\ frames[s].hresp.message.tpl = "view_one"
        /\ meetings = frames[s].db0

\* the start of the n-th slot find_optimal_meeting_time considered, in the
\* order it ranked them
RankedStart(n) == fromisoformat(plan.ranked[n].start_time)

OnWeekday(t) == (t \div 1440) % 7 \in 0..4

\* C19: a slot scores +3 for a start hour from 9 to 11, +2 from 14 to 16,
\* -1 from 12 to 13, plus 2 on a weekday, plus 0.5 for each participant;
\* the slots are ranked by that score, so among the slots considered in a
\* call (the participant count is the same for all) a 10:00 weekday slot
\* comes before every weekday slot of the 12:00-13:59 band.
C19_ScoreRanksMorningAboveLunch ==
    plan.op = "optimal"
    => /\ \A n \in 1..Len(plan.ranked) :
              /\ plan.ranked[n].participant_count = Len(plan.participants)
              /\ score(plan.ranked[n]) = SlotScore(RankedStart(n), Len(plan.participants))
       /\ \A i, j \in 1..Len(plan.ranked) :
              /\ i < j => SlotScore(RankedStart(i), Len(plan.participants))
                              >= SlotScore(RankedStart(j), Len(plan.participants))
              /\ /\ HourOf(RankedStart(i)) = 10 /\ OnWeekday(RankedStart(i))
                 /\ HourOf(RankedStart(j)) \in 12..13 /\ OnWeekday(RankedStart(j))
                 => i < j
       /\ plan.result # PyNone => plan.result = PyDict(plan.ranked[1])

\* a call considered a 10:00 slot and a 12:00 slot of a weekday, for two
\* participants, and returned a slot of the morning band
C19_Witness ==
    /\ plan.op = "optimal" /\ Len(plan.participants) = 2
    /\ \E i, j \in 1..Len(plan.ranked) :
          /\ HourOf(RankedStart(i)) = 10 /\ OnWeekday(RankedStart(i))
          /\ HourOf(RankedStart(j)) = 12 /\ OnWeekday(RankedStart(j))
          /\ i < j
    /\ plan.result # PyNone
    /\ HourOf(fromisoformat(plan.result.v.start_time)) \in 9..11

\* the calls in slots s and t were in flight at the same time
Overlapped(s, t) ==
    \/ frames[s].call \in frames[t].during
    \/ frames[t].call \in frames[s].during

\* a lost update: the call in slot s stored a pending action for its user,
\* and the call in slot t, which was not dispatched on that action,
\* replaced or deleted it
LostUpdate(s, t) ==
    /\ s # t
    /\ frames[t].over # <<>>
    /\ frames[t].over[1].call = frames[s].call
    /\ \/ frames[t].user \notin DOMAIN frames[t].pa0
       \/ frames[t].pa0[frames[t].user] # frames[t].over[1].action

OneAtATimeLosesNothing ==
    \A s, t \in Slots : ~Overlapped(s, t) /\ ~LostUpdate(s, t)

\* calls that did not overlap: the later one replaced the pending action the
\* earlier one stored, which it was dispatched on
AnsweredInTurn ==
    \E s, t \in Slots :
        /\ s # t /\ ~Overlapped(s, t)
        /\ frames[t].over # <<>> /\ frames[t].over[1].call = frames[s].call
        /\ frames[t].pa0[frames[t].user] = frames[t].over[1].action

\* the store mutations the call in slot s invoked in this step
NewCalls(s) ==
    IF frames'[s].call # frames[s].call THEN frames'[s].calls
    ELSE SubSeq(frames'[s].calls, Len(frames[s].calls) + 1, Len(frames'[s].calls))

\* a step of the call in slot s that creates or deletes takes the pending
\* action from the table and removes it in the same step, creates at most
\* one meeting and deletes no meeting twice
ConsumesItsPending(s) ==
    LET u == frames'[s].user
        new == NewCalls(s)
        creates == {n \in 1..Len(new) : new[n].op = "create"}
        deletes == {n \in 1..Len(new) : new[n].op = "delete"}
    IN  /\ Cardinality(creates) <= 1
        /\ \A m, n \in deletes : new[m].id = new[n].id => m = n
        /\ creates \cup deletes # {}
           => /\ u \in DOMAIN pending_actions
              /\ u \notin DOMAIN pending_actions'
              /\ creates # {}
                 => pending_actions[u].action \in {"confirm_create_meeting", "create_meeting"}
              /\ deletes # {}
                 => /\ pending_actions[u].action
                          \in {"confirm_delete_meeting", "confirm_delete", "confirm_delete_all"}
                    /\ pending_actions[u].action # "confirm_delete_all"
                       => \A n \in deletes : new[n].id = pending_actions[u].target_meeting

\* C21: also when calls of one user overlap, one pending proposal or
\* confirmation leads to at most one store mutation: the step that creates
\* the proposed meeting or deletes the confirmed target removes the pending
\* action in that same step, so no other call finds it again.
C21_OnePendingOneMutation ==
    [][\A s \in Slots : ConsumesItsPending(s)]_vars

\* a second "yes" arrived while the call of the first, which created the
\* meeting, was suspended: it found nothing pending and created nothing
C21_Witness ==
    \E s, t \in Slots :
        /\ Overlapped(s, t) /\ frames[s].call < frames[t].call
        /\ frames[s].message = "yes" /\ From(s, {"confirm_create_meeting"})
        /\ Invoked(s, "create")
        /\ frames[t].message = "yes" /\ FromNoPending(t)
        /\ Handled(t) /\ frames[t].calls = <<>>
        /\ Cardinality({id \in DOMAIN meetings : id \notin DOMAIN frames[s].db0}) = 1

\* no call is suspended
Quiet == \A s \in Slots : ~InFlight(s)

\* C22: every call of process_message, failed ones and ones overlapping
\* another call of the user included, appends one user turn and then one
\* assistant turn to the history of its user, and nothing is ever removed:
\* once the calls have returned, the history of a user who sent n messages
\* has 2n entries, a user turn and an assistant turn for each.
C22_EveryCallAddsTwoTurns ==
    Quiet
    => \A u \in DOMAIN conversation_history :
          /\ Len(conversation_history[u]) = 2 * TurnsOf(u)
          /\ Cardinality({n \in 1..Len(conversation_history[u]) :
                             conversation_history[u][n].role = "assistant"}) = TurnsOf(u)

\* what a user says to have all meetings deleted
AsksToDeleteAll == {"delete all"}

\* C23: an utterance asking to delete all meetings is classified
\* delete_all, so that from no pending action process_message asks for the
\* confirmation of deleting them all (or answers at once that there are
\* none) and the state waiting for that confirmation is reached.
C23_DeleteAllIsClassified ==
    \A s \in Slots :
        FreshTurn(s) /\ frames[s].message \in AsksToDeleteAll
        => /\ _analyze_intent(Str(frames[s].message)) = "delete_all_meetings"
           /\ Handled(s)
           /\ ~Cleared(s) => pending_actions[frames[s].user].action = "confirm_delete_all"

\* whatever the delete_all rule matches the delete rule matches before it:
\* no utterance is classified delete_all and no call leaves the
\* confirmation of deleting all pending
DeleteAllIsShadowed ==
    /\ \A m \in Utterances :
          /\ RuleMatches(IntentRules[5], Str(m)) => RuleMatches(IntentRules[4], Str(m))
          /\ _analyze_intent(Str(m)) # "delete_all_meetings"
    /\ \A u \in DOMAIN pending_actions : pending_actions[u].action # "confirm_delete_all"

\* the request to delete all was taken as the request to delete one meeting
DeleteAllTakenAsDelete ==
    \E s \in Slots :
        /\ frames[s].message \in AsksToDeleteAll /\ FromNoPending(s)
        /\ frames[s].pc = "delete_extract"

\* the turn in slot s was a request to create a meeting and the call to the
\* Text Completion Service for the structured extraction failed
ExtractionFailed(s) ==
    /\ frames[s].pc # "idle" /\ FromNoPending(s)
    /\ FirstRuleIntent(Str(frames[s].message)) = "create_meeting"
    /\ frames[s].llm # <<>> /\ ~frames[s].llm[1]

\* C24: when the structured-extraction call of the create handler fails,
\* the handler goes on with the rule-based field map: the turn is not
\* answered with an error, and it ends with the pending action the
\* rule-based fields lead to (details awaited or confirmation awaited).
C24_FailedExtractionFallsBackToRules ==
    \A s \in Slots :
        ExtractionFailed(s) /\ Handled(s)
        => /\ frames[s].hresp.success
           /\ frames[s].hresp.message.tpl \notin GenericErrors
           /\ ~Cleared(s)
           /\ pending_actions[frames[s].user].action
                  \in {"create_meeting", "confirm_create_meeting"}

\* the meeting intent holds a title, a start time, participants and a duration
Complete(intent) ==
    \A key \in {"title", "start_time", "participants", "duration_minutes"} :
        /\ key \in DOMAIN intent
        /\ intent[key] \notin {PyNone, PyStr(<<>>), PyList(<<>>), PyInt(0)}

\* C25: the store's create is invoked only for a meeting intent whose
\* title, start time, participants and duration are all non-empty, whether
\* the details were completed by a clarification or a proposal (rewritten
\* or not) was confirmed, and every meeting created has at least one
\* participant id.
C25_CreatesOnlyCompleteIntents ==
    \A s \in Slots :
        Invoked(s, "create")
        => /\ From(s, {"create_meeting", "confirm_create_meeting"})
           /\ Complete(Intended(s))
           /\ \A id \in Created(s) : meetings[id].participants # <<>>

\* the half about the rows: every meeting created has at least one
\* participant id
CreatedHaveParticipants ==
    \A s \in Slots : \A id \in Created(s) : meetings[id].participants # <<>>

\* creation is reached from the states that wait for details or for the
\* confirmation of a proposal only, and never without a start time
CreatesOnlyWithStartTime ==
    \A s \in Slots :
        Invoked(s, "create")
        => /\ From(s, {"create_meeting", "confirm_create_meeting"})
           /\ "start_time" \in DOMAIN Intended(s)
           /\ Intended(s).start_time \notin {PyNone, PyStr(<<>>)}

\* the turn in slot s answered the proposal of an alternative time
AnswersAlternative(s) ==
    /\ From(s, {"create_meeting"})
    /\ "suggested_alternative" \in DOMAIN Found(s)

\* C26: while the agent waits for the answer to an alternative time it
\* proposed, a meeting is created only if the user accepts: the answer "no"
\* clears the pending action and creates nothing.
C26_NoToAlternativeCreatesNothing ==
    \A s \in Slots :
        Handled(s) /\ AnswersAlternative(s) /\ frames[s].message = "no"
        => /\ Cleared(s)
           /\ ~Invoked(s, "create")
           /\ meetings = frames[s].db0

\* the answer "no" to an alternative time created the meeting at that time
NoToAlternativeCreated ==
    \E s \in Slots :
        /\ AnswersAlternative(s) /\ frames[s].message = "no"
        /\ \E id \in Created(s) :
              /\ meetings[id].present
              /\ meetings[id].start_time = Denotes(Found(s).suggested_alternative)

\* the meetings of db0 in the way of row id for the user of the turn in slot s
InTheWay(s, id) ==
    ConflictsOf(frames[s].db0, frames[s].user, meetings[id].start_time, meetings[id].end_time)

\* C27: creation through the dialogue checks for conflicts: a meeting whose
\* interval overlaps a proposed or confirmed meeting of the requesting user
\* is written to the store only after the conflict was put to the user in a
\* reply.
C27_NoUnsurfacedConflictWritten ==
    \A s \in Slots :
        \A id \in Created(s) :
            meetings[id].present /\ InTheWay(s, id) # {} => AnswersAlternative(s)

\* C28: through the dialogue a user deletes or modifies only meetings they
\* organize: a call of process_message by user U leaves every meeting
\* whose organizer is not U as it found it.
C28_OnlyOrganizerChangesMeeting ==
    \A s \in Slots :
        frames[s].pc # "idle"
        => \A id \in DOMAIN frames[s].db0 :
               frames[s].db0[id].organizer_id # frames[s].user
               => meetings[id] = frames[s].db0[id]

\* the pending actions that ask the user to confirm a deletion
DeleteConfirmations == {"confirm_delete_meeting", "confirm_delete", "confirm_delete_all"}

\* the reply of the handler that stored delete confirmation p
PromptFor(s, p) ==
    IF p.action = "confirm_delete_all"
    THEN frames[s].hresp.message = Canned("sure_to_cancel_all", <<PyInt(p.meeting_count)>>)
    ELSE frames[s].hresp.message.tpl \in {"sure_to_delete", "sure_to_delete_yes_no"}
         /\ frames[s].hresp.message.args = <<TitleOf(frames[s].db0, p.target_meeting)>>

\* the meetings the delete confirmation found by the turn in slot s is about
ConfirmedForDeletion(s) ==
    IF Found(s).action = "confirm_delete_all"
    THEN LET ms == get_user_meetings(frames[s].db0, TRUE, frames[s].user)
         IN  {ms[n] : n \in 1..Len(ms)}
    ELSE {Found(s).target_meeting}

\* C29: the store's delete is invoked only by a turn that found a delete
\* confirmation pending and was given an affirmative reply, and only for the
\* meetings that confirmation is about; a handler that stores a delete
\* confirmation replies with the prompt for that deletion; no turn that
\* found no pending action, or a selection pending, deletes anything.
C29_DeleteOnlyAfterConfirmation ==
    \A s \in Slots :
        /\ Invoked(s, "delete")
           => /\ From(s, DeleteConfirmations)
              /\ lower(strip(Str(frames[s].message))) \in Affirmative
              /\ \A n \in 1..Len(frames[s].calls) :
                     /\ frames[s].calls[n].op = "delete"
                     /\ frames[s].calls[n].id \in ConfirmedForDeletion(s)
        /\ Handled(s) /\ frames[s].wrote # <<>> /\ frames[s].wrote[1].action \in DeleteConfirmations
           => PromptFor(s, frames[s].wrote[1])

C29_Witness ==
    \E s \in Slots :
        /\ Returned(s) /\ Invoked(s, "delete")
        /\ From(s, {"confirm_delete_meeting"})
        /\ frames[s].hresp.message.tpl = "deleted"
        /\ Len(conversation_history[frames[s].user]) >= 3
        /\ conversation_history[frames[s].user][2].role = "assistant"
        /\ Cleared(s)

\* a turn answered a selection for deletion and deleted nothing
C29_SelectionAsks ==
    \E s \in Slots :
        /\ Handled(s) /\ From(s, {"delete_meeting"})
        /\ frames[s].wrote # <<>> /\ frames[s].wrote[1].action = "confirm_delete_meeting"
        /\ frames[s].calls = <<>>

\* the first half of C29 alone: who invokes the store's delete
DeletesOnlyOnAffirmedConfirmation ==
    \A s \in Slots :
        Invoked(s, "delete")
        => /\ From(s, DeleteConfirmations)
           /\ lower(strip(Str(frames[s].message))) \in Affirmative

\* the list get_meeting_suggestions returned to the call plan shows
Suggested ==
    get_meeting_suggestions(plan.db0, plan.up, plan.participants, plan.duration,
                            plan.start, plan.end)

\* the start of the n-th suggestion
SuggestedStart(n) == fromisoformat(Suggested[n].start_time)

\* C30: with the database answering, every slot get_meeting_suggestions
\* returns, and the slot find_optimal_meeting_time picks from them, is
\* feasible: no participant of the query organizes or takes part in a
\* proposed or confirmed meeting that overlaps [start, end) of the slot; at
\* most 10 suggestions are returned, in chronological order.
C30_SuggestionsAreFeasible ==
    plan.op = "optimal" /\ plan.up
    => /\ \A n \in 1..Len(Suggested) : SuggestedStart(n) \in FeasibleSlots
       /\ plan.result # PyNone => fromisoformat(plan.result.v.start_time) \in FeasibleSlots
       /\ Len(Suggested) <= 10
       /\ \A n \in 1..(Len(Suggested) - 1) : SuggestedStart(n) < SuggestedStart(n + 1)

\* the other half of C30: at most 10 suggestions, in chronological order,
\* and the optimal slot is one of them
SuggestionsAreFewAndOrdered ==
    plan.op = "optimal"
    => /\ Len(Suggested) <= 10
       /\ \A n \in 1..(Len(Suggested) - 1) : SuggestedStart(n) < SuggestedStart(n + 1)
       /\ plan.result # PyNone => \E n \in 1..Len(Suggested) : plan.result.v = Suggested[n]

\* a range of more than ten free slots was cut to ten suggestions
TenSuggested == plan.op = "optimal" /\ Len(Suggested) = 10

-----------------------------------------------------------------------------
(* Properties of the Scheduling Engine's moves, of the Slot Search Engine, *)
(* of the written rows and of the replies taken from the Text Completion   *)
(* Service.                                                                *)

\* the meetings the call of auto_reschedule_conflicting_meetings rewrote
Rewritten == {id \in DOMAIN plan.db0 : meetings[id] # plan.db0[id]}

\* the participants of the row are free of other meetings in its interval
FreeForItsParticipants(id) ==
    \A n \in 1..Len(meetings[id].participants) :
        ConflictsOf(meetings, meetings[id].participants[n].v,
                    meetings[id].start_time, meetings[id].end_time) \subseteq {id}

\* C31: with the database answering, every meeting rewritten by
\* auto_reschedule_conflicting_meetings starts within
\* [new_meeting_start + 1 day, new_meeting_start + 7 days], keeps its
\* duration, is free of conflicts for its own participants and no longer
\* overlaps the interval of the new meeting.
C31_MovedIntoTheWindow ==
    plan.op = "reschedule" /\ plan.up
    => \A id \in Rewritten :
          /\ meetings[id].start_time >= plan.start + 1440
          /\ meetings[id].start_time <= plan.start + 7 * 1440
          /\ meetings[id].duration_minutes = plan.db0[id].duration_minutes
          /\ meetings[id].end_time = meetings[id].start_time + meetings[id].duration_minutes
          /\ FreeForItsParticipants(id)
          /\ ~Overlaps(meetings[id], plan.start, plan.end)

\* C31 without the lower bound of the window: the moved meeting starts on
\* a later day than the new meeting
MovedToALaterDay ==
    plan.op = "reschedule" /\ plan.up
    => \A id \in Rewritten :
          /\ meetings[id].start_time \div 1440 > plan.start \div 1440
          /\ meetings[id].start_time <= plan.start + 7 * 1440
          /\ meetings[id].duration_minutes = plan.db0[id].duration_minutes
          /\ meetings[id].end_time = meetings[id].start_time + meetings[id].duration_minutes
          /\ ~Overlaps(meetings[id], plan.start, plan.end)

\* the end of the n-th suggestion
SuggestedEnd(n) == fromisoformat(Suggested[n].end_time)

\* C32: every slot the Slot Search Engine produces, for every requested
\* duration, starts at or after 09:00 and ends (start + duration) at or
\* before 17:00 of the same day.
C32_SlotsWithinBusinessHours ==
    plan.op = "optimal"
    => \A n \in 1..Len(Suggested) :
          /\ SuggestedEnd(n) = SuggestedStart(n) + plan.duration
          /\ SuggestedStart(n) >= combine(SuggestedStart(n) \div 1440, 9, 0)
          /\ SuggestedEnd(n) <= combine(SuggestedStart(n) \div 1440, 17, 0)

\* the part of C32 about the start of a slot: 9:00 to 16:00, on the hour
SlotsStartInBusinessHours ==
    plan.op = "optimal"
    => \A n \in 1..Len(Suggested) :
          /\ SuggestedEnd(n) = SuggestedStart(n) + plan.duration
          /\ HourOf(SuggestedStart(n)) \in 9..16
          /\ SuggestedStart(n) % 60 = 0

\* the hourly slots of the dates of the range that the engine's own test
\* of availability finds free
FreeByTheEngine ==
    {t \in HourlySlots(plan.start, plan.end) :
        AllAvailable(plan.db0, plan.up, plan.participants, t, t + plan.duration)}

\* C33: for a range [start_date, end_date] the Slot Search Engine considers
\* the hourly slots of every calendar date from the date of start_date to
\* the date of end_date, whatever the times of day of the two bounds (so a
\* list of fewer than ten suggestions holds every slot of those dates that
\* it finds free), and every slot it returns starts at or after start_date
\* and at or before end_date.
C33_SlotsCoverTheRange ==
    plan.op = "optimal" /\ plan.start <= plan.end
    => /\ Len(Suggested) < 10
          => FreeByTheEngine \subseteq {SuggestedStart(n) : n \in 1..Len(Suggested)}
       /\ \A n \in 1..Len(Suggested) :
             /\ SuggestedStart(n) >= plan.start
             /\ SuggestedStart(n) <= plan.end

\* what holds of the range: every slot returned is on a date from the date
\* of start_date to the date of end_date
SlotsOnTheDatesOfTheRange ==
    plan.op = "optimal"
    => \A n \in 1..Len(Suggested) : SuggestedStart(n) \in HourlySlots(plan.start, plan.end)

\* the rows the turn in slot s wrote: created, or changed in some field
WrittenBy(s) ==
    {id \in DOMAIN meetings :
        /\ meetings[id].present
        /\ id \in DOMAIN frames[s].db0 => meetings[id] # frames[s].db0[id]}

StartChanged ==
    \E s \in Slots :
        /\ Handled(s) /\ Invoked(s, "update")
        /\ \E id \in WrittenBy(s) \cap DOMAIN frames[s].db0 :
              meetings[id].start_time # frames[s].db0[id].start_time

\* a turn changed both the start and the duration of a meeting
StartAndDurationChanged ==
    \E s \in Slots :
        /\ Handled(s) /\ Invoked(s, "update")
        /\ \E id \in WrittenBy(s) \cap DOMAIN frames[s].db0 :
              /\ meetings[id].start_time # frames[s].db0[id].start_time
              /\ meetings[id].duration_minutes # frames[s].db0[id].duration_minutes

\* the same of the rows auto_reschedule_conflicting_meetings moved
MovedKeepEndAtStartPlusDuration ==
    plan.op = "reschedule"
    => \A id \in DOMAIN meetings :
          meetings[id].end_time = meetings[id].start_time + meetings[id].duration_minutes

\* the rephrasing call of the turn in slot s failed
RephrasingFailed(s) == Returned(s) /\ frames[s].enh # <<>> /\ frames[s].enh[1].raises

\* the last entry of the history of the user of the turn in slot s
LastTurn(s) ==
    conversation_history[frames[s].user][Len(conversation_history[frames[s].user])]

\* C35 as stated: when the rephrasing call fails for any reason, a quota
\* error included, the result returned and the text appended to the
\* history are the handler's result and text, unchanged, and the rephrasing
\* was attempted once.
C35_FailedRephrasingReturnsOriginal ==
    \A s \in Slots :
        RephrasingFailed(s)
        => /\ frames[s].resp = frames[s].hresp
           /\ LastTurn(s) = [role |-> "assistant", content |-> frames[s].hresp.message]
           /\ Len(frames[s].enh) = 1

\* C35: when the rephrasing call fails, the result returned is the
\* handler's result, and the text returned and appended to the history is
\* the handler's text, except that after a quota error a text that does not
\* mention usage itself has the note about high usage appended; the
\* rephrasing was attempted once.
C35_FailedRephrasingReturnsOriginalOrNote ==
    \A s \in Slots :
        RephrasingFailed(s)
        => /\ frames[s].resp =
                 [frames[s].hresp EXCEPT
                     !.message.note =
                         frames[s].enh[1].quota /\ ~MentionsUsage(frames[s].hresp.message)]
           /\ ~frames[s].hresp.message.note
           /\ LastTurn(s) = [role |-> "assistant", content |-> frames[s].resp.message]
           /\ Len(frames[s].enh) = 1

\* the rephrasing failed with a quota error and the note was appended
C35_Witness ==
    \E s \in Slots :
        /\ RephrasingFailed(s) /\ frames[s].enh[1].quota
        /\ frames[s].resp.message.note
        /\ frames[s].resp.message.tpl = frames[s].hresp.message.tpl

\* the rephrasing failed otherwise and the handler's text was returned
FailedRephrasingKeptText ==
    \E s \in Slots :
        /\ RephrasingFailed(s) /\ ~frames[s].enh[1].quota
        /\ frames[s].resp = frames[s].hresp

\* the length of a text that came from the Text Completion Service
LengthOf(m) == m.args[1].v

\* C36: a text of the Text Completion Service that is returned to the user
\* as the message of a successful result (clarification question,
\* confirmation of a creation, general answer, rephrased reply) has a
\* length within the bounds [10, 500]; an empty or out-of-bounds text is
\* never the message of a result with success true.
C36_ReturnedTextsAreWithinBounds ==
    \A s \in Slots :
        Returned(s) /\ frames[s].resp.success /\ frames[s].resp.message.tpl = "llm"
        => /\ ~IsEmptyMessage(frames[s].resp.message)
           /\ LengthOf(frames[s].resp.message) >= 10
           /\ LengthOf(frames[s].resp.message) <= 500

\* the part of C36 that holds: a rephrased reply that was taken is within
\* the bounds
TakenRephrasingsAreWithinBounds ==
    \A s \in Slots :
        /\ Returned(s) /\ frames[s].enh # <<>> /\ ~frames[s].enh[1].raises
        /\ frames[s].resp # frames[s].hresp
        => /\ LengthOf(frames[s].resp.message) > 10
           /\ LengthOf(frames[s].resp.message) < 500

\* the keys of the details a meeting needs
RequiredKeys == {"title", "start_time", "participants", "duration_minutes"}

\* what the utterance of the turn in slot s adds to the details gathered
Given(s) == _extract_meeting_info(Str(frames[s].message))

\* the details gathered before the turn in slot s with those just given
Gathered(s) == Update(Found(s).partial_info, Given(s).info)

\* the members of a list
Members(l) == {l[n] : n \in 1..Len(l)}

\* C37: a turn that finds a request for details pending and whose utterance
\* leaves the required details incomplete stores the request again with the
\* merged details and the new list of missing fields; the new list is a
\* subset of the previous one, and a required field that was present before
\* the utterance is not missing afterwards.
C37_MissingFieldsOnlyNarrow ==
    \A s \in Slots :
        /\ Handled(s) /\ From(s, {"create_meeting"})
        /\ ~Given(s).raised /\ MissingFields(Gathered(s)) # <<>>
        => /\ frames[s].user \in DOMAIN pending_actions
           /\ pending_actions[frames[s].user].action = "create_meeting"
           /\ pending_actions[frames[s].user].partial_info = Gathered(s)
           /\ pending_actions[frames[s].user].missing_fields = MissingFields(Gathered(s))
           /\ Members(MissingFields(Gathered(s))) \subseteq Members(Found(s).missing_fields)
           /\ \A key \in RequiredKeys :
                 Truthy(Get(Found(s).partial_info, key)) => Truthy(Get(Gathered(s), key))

\* the part of C37 that holds: the request is stored again with the merged
\* details and the list of what they lack
IncompleteRequestIsStoredAgain ==
    \A s \in Slots :
        /\ Handled(s) /\ From(s, {"create_meeting"})
        /\ ~Given(s).raised /\ MissingFields(Gathered(s)) # <<>>
        => /\ frames[s].user \in DOMAIN pending_actions
           /\ pending_actions[frames[s].user].action = "create_meeting"
           /\ pending_actions[frames[s].user].partial_info = Gathered(s)
           /\ pending_actions[frames[s].user].missing_fields = MissingFields(Gathered(s))

\* the turn in slot s is one in which the user is on the way out
OnTheWayOut(s) == frames[s].pc # "idle" /\ frames[s].call > FreeTurns

\* how many turns a pending action is from none, on the way out
Rank(pa, user_id) ==
    IF user_id \notin DOMAIN pa THEN 0
    ELSE IF pa[user_id].action \in {"update_meeting", "delete_meeting"} THEN 2
    ELSE 1

\* C38: from every pending action the user can get back to no pending
\* action without a change of the meetings table: when a user with a pending
\* action says "no" to a confirmation, picks the first meeting in a
\* selection and answers a request for details with a time that cannot be
\* read, no turn on the way creates, updates or deletes a meeting, and each
\* turn brings the user nearer to no pending action (a selection is two
\* turns away, every other pending action one), so that after finitely
\* many turns none is pending.
C38_EveryPendingActionHasAWayOut ==
    \A s \in Slots :
        OnTheWayOut(s)
        => /\ StoreUntouched(s)
           /\ frames[s].user \in DOMAIN frames[s].pa0
           /\ Handled(s)
              => Rank(pending_actions, frames[s].user) < Rank(frames[s].pa0, frames[s].user)

\* a user who was asked what to change in a meeting got out without a change
C38_Witness ==
    \E s \in Slots :
        /\ Returned(s) /\ OnTheWayOut(s)
        /\ From(s, {"update_meeting_details"})
        /\ Cleared(s) /\ StoreUntouched(s)

\* the pending actions that the turns on the way out found
LeftFrom(action) ==
    \E s \in Slots : Returned(s) /\ OnTheWayOut(s) /\ From(s, {action}) /\ StoreUntouched(s)

\* the meetings that were in the table when the turn in slot s began and
\* are no longer
DeletedBy(s) ==
    {id \in DOMAIN frames[s].db0 : frames[s].db0[id].present /\ ~meetings[id].present}

\* the turn in slot s confirmed the cancelling of all meetings
ConfirmsAll(s) ==
    /\ Handled(s) /\ From(s, {"confirm_delete_all"})
    /\ lower(strip(Str(frames[s].message))) \in Affirmative

ReplyCountsThePrompted ==
    \A s \in Slots :
        ConfirmsAll(s) /\ frames[s].hresp.success
        => frames[s].hresp.message =
               Canned("cancelled_all", <<PyInt(Found(s).meeting_count)>>)

\* with the table as it was at the prompt, and the database answering, the
\* confirmation deleted as many meetings as the reply names
AllCancelledAsCounted ==
    \E s \in Slots :
        /\ ConfirmsAll(s) /\ Found(s).meeting_count = 2
        /\ Cardinality(DeletedBy(s)) = 2

\* another user cancelled a meeting between the prompt and the confirmation:
\* the reply names two meetings, the turn found and deleted one
CountIsStale ==
    \E s \in Slots :
        /\ ConfirmsAll(s) /\ frames[s].hresp.success
        /\ Found(s).meeting_count = 2
        /\ \E id \in DOMAIN frames[s].db0 : ~frames[s].db0[id].present
        /\ Len(frames[s].calls) = 1 /\ Cardinality(DeletedBy(s)) = 1
        /\ \A id \in DOMAIN meetings : ~meetings[id].present

\* the hour of the day a written time denotes
HourDenoted(token) ==
    IF token.kind = "24h" THEN token.hour
    ELSE IF token.period = "am" THEN token.hour % 12
    ELSE (token.hour % 12) + 12

\* the minute a written time denotes
MinuteDenoted(token) == IF token.minute < 0 THEN 0 ELSE token.minute

\* what was read is the time the text denotes, today
ReadAsDenoted ==
    /\ ~plan.raised
    /\ plan.start_time =
           isoformat(combine(Today, HourDenoted(plan.token), MinuteDenoted(plan.token)))
    /\ plan.start_time.v.h \in 0..23

\* C40: the extraction of a time of day gives the 24-hour form: H am/pm
\* with 1 <= H <= 12 gives hour H mod 12 for am and (H mod 12) + 12 for pm,
\* HH:MM with 0 <= HH <= 23 gives hour HH and minute MM, and the hour is
\* always in 0..23.
C40_TimesReadIn24HourForm == plan.op = "clock" => ReadAsDenoted

\* the part of C40 that holds: of both extractors for 12-hour times
TwelveHourTimesReadIn24HourForm ==
    plan.op = "clock" /\ plan.token.kind = "12h" => ReadAsDenoted

\* 2:30pm was read as 14:30
AfternoonRead ==
    /\ plan.op = "clock" /\ plan.token.kind = "12h" /\ plan.token.period = "pm"
    /\ plan.token.hour = 2 /\ plan.token.minute = 30
    /\ plan.start_time = isoformat(combine(Today, 14, 30))

\* _extract_meeting_info reads the hour of an HH:MM and not its minutes
HHMMLosesItsMinutes ==
    /\ plan.op = "clock" /\ plan.by = "_extract_meeting_info" /\ plan.token.kind = "24h"
    => /\ ~plan.raised
       /\ plan.start_time = isoformat(combine(Today, plan.token.hour, 0))

\* _extract_update_info reads nothing from an HH:MM
UpdateReadsNoHHMM ==
    /\ plan.op = "clock" /\ plan.by = "_extract_update_info" /\ plan.token.kind = "24h"
    => ~plan.raised /\ plan.start_time = PyNone

=============================================================================
